---- MODULE Spec2Model ----
(***************************************************************************)
(* A model of the session/concurrency coordinator of Techiee:              *)
(*   - the per-scope bounded message history   (utils/gemini.py)           *)
(*   - the ResponseTracker and the reaction handlers (cogs/reactions.py)   *)
(*   - the TypingManager                        (utils/typing.py)          *)
(*   - the router's use of the TypingManager    (cogs/router.py)           *)
(*   - the 503 retry flow                       (utils/retry.py)           *)
(*   - API key rotation                         (utils/gemini.py)          *)
(* Each subsystem has its own specification (SpecHistory, SpecTyping, ...) *)
(* over the one set of variables; a specification leaves the variables of  *)
(* the other subsystems at their initial values.                           *)
(***************************************************************************)
EXTENDS Integers, Sequences, FiniteSets, TLC

\* ------------------------------------------------------------------ bounds
\* The configured config.max_history, scaled down (config.py:55 sets 30) so
\* that a scope overflows; 0 ("set to 0 to disable message history") is
\* explored as well.
MaxHistoryCap == 2
\* Capacity of the ResponseTracker, scaled down from MAX_TRACKED_RESPONSES
\* (reactions.py:18 sets 1000) so that the capacity is reached.
MAX_TRACKED_RESPONSES == 2
\* Number of inbound messages (requests) handled in one behaviour.
MaxRequests == 2
\* Number of reaction events handled in one behaviour.
MaxReactions == 1
\* Number of messages entered into the typing gate in one behaviour.
MaxMsgs == 2
\* Number of keep_alive calls in one behaviour.
MaxKeepAlives == 1
\* Number of typing sessions created in one behaviour.
MaxSessions == 2
\* Number of retry-button interactions that can be in progress at once.
MaxPresses == 2
\* Largest credential pool explored (pools of 0 .. MaxKeys keys).
MaxKeys == 3
\* Number of execute_with_retry calls sharing the key manager.
MaxCallers == 2
\* Largest remaining_uses a pending context is created with (/context
\* accepts 1-20, context.py:38-42).
MaxUses == 2
\* Number of inbound messages that may read the pending context.
MaxCtxMsgs == 2
\* Number of retry or regenerate runs of one message's callback.
MaxReruns == 1
\* Number of channels a message may arrive in.
MaxChannels == 2

\* ------------------------------------------------------------- constants
Users == {1, 2}
\* Scope keys as get_history_key builds them: (kind, id).
HistoryKeys == {<<"dm", 1>>, <<"thread", 10>>}
\* The scopes a user can write to: the own DM scope, or the shared thread.
KeysOf(u) == {k \in HistoryKeys : k[1] = "thread" \/ k[2] = u}
NoInfo == [bot_message_id |-> 0, author_id |-> 0, history_key |-> <<"none", 0>>,
           request |-> 0]
Requests == 1 .. MaxRequests
ReactionIds == 1 .. MaxReactions

VARIABLES
  \* ---- utils/gemini.py, config.py
  max_history,      \* config.max_history
  message_history,  \* dict: history key -> list of Content (role, request)
  \* ---- cogs/reactions.py
  responses,        \* ResponseTracker._responses, in insertion order
  next_msg_id,      \* the next Discord message id the platform hands out
  reactions,        \* the running on_raw_reaction_add tasks
  \* ---- cogs/processors/text.py + utils/retry.py (the delivering tasks)
  requests,         \* the running process()/send_response_with_retry tasks
  last_delete,      \* ghost: what the latest _handle_delete saw and left
  \* ---- utils/typing.py (one channel: all state and the lock are per channel)
  active_messages,  \* _active_messages[channel]: the in-flight message ids
  stop_event,       \* _stop_events[channel]: the id of the Event, 0 for none
  events_set,       \* the Event objects whose flag is set
  task,             \* _tasks[channel]: the id of the session task, 0 for none
  sessions,         \* per _typing_session task: its position in the code
  session_event,    \* per _typing_session task: its local stop_event
  last_keep_alive,  \* age of _last_keep_alive[channel]; the window if absent
  delayed_stops,    \* the sleeping _delayed_stop tasks, by remaining sleep
  keep_alives,      \* the number of keep_alive calls made
  ops,              \* ghost: the gate calls made so far, in order
  since_stop,       \* ghost: age of the last stop_typing that emptied the set
  since_keep_alive, \* ghost: age of the last keep_alive call, up to the window
  http_failed,      \* ghost: the platform has rejected a typing request
  route,            \* per message: the position of its route_message task
  \* ---- utils/retry.py (one request of one author and its RetryView)
  request_pc,       \* the position of send_response_with_retry
  view_state,       \* the RetryView: none, active, stopped or timed_out
  retry_count,      \* RetryView.retry_count
  button_disabled,  \* RetryView.retry_button.disabled
  shown_disabled,   \* the button as the platform last received it
  error_message,    \* RetryView.error_message: none, shown or deleted
  countdowns,       \* the running start_countdown tasks
  presses,          \* the running RetryButton.callback tasks
  attempts,         \* ghost: the outcome of each finished generation, in order
  calls,            \* ghost: the number of generations started
  history_calls,    \* ghost: the number of update_history_callback calls
  track_calls,      \* ghost: the number of response_tracker.track calls
  \* ---- utils/gemini.py (APIKeyManager and the execute_with_retry calls)
  num_keys,         \* len(api_key_manager.api_keys)
  current_index,    \* api_key_manager.current_index
  callers,          \* the running execute_with_retry calls and their locals
  \* ---- utils/gemini.py (pending context) and the processors that use it
  pending_context,  \* dict: scope key -> entry (remaining_uses, listen channel)
  context_log,      \* ghost, per scope: the latest set and the calls after it
  ctx_msgs,         \* the messages handled by the text and image processors
  \* ---- ghosts of the history appends and removals
  append_log,       \* ghost, per scope: every entry appended so far, in order
  regen_log,        \* ghost, per reaction task: the steps of its regenerate
  \* ---- utils/gemini.py, config.py (the scope of a message)
  tracked_threads,  \* gemini.tracked_threads
  tracked_channels, \* config.tracked_channels
  last_key,         \* ghost: the latest get_history_key call, what held, the result
  \* ---- utils/gemini.py (context_settings) and one request that reads it
  context_settings, \* dict: settings key -> the settings dict stored for it
  settings_heap,    \* the settings dicts that exist, by identity
  closure,          \* the request: its position and what its closures hold
  request_uses,     \* ghost: the contents and settings each attempt ran with
  \* ---- utils/retry.py (the interactions of all users with the RetryView)
  pressed_by,       \* ghost: the id of the user of each click so far, in order
  \* ---- utils/config_manager.py
  overrides,        \* dynamic_config.overrides, a dict by configuration name
  \* ---- utils/gemini.py (one wait_for_file_active call)
  waiter            \* its position, the seconds since start_time and its polls

histVars == <<max_history, message_history, responses, next_msg_id, reactions,
              requests, last_delete>>
typingVars == <<active_messages, stop_event, events_set, task, sessions,
                session_event, last_keep_alive, since_keep_alive, delayed_stops, keep_alives, ops,
                since_stop, http_failed, route>>
retryVars == <<request_pc, view_state, retry_count, button_disabled,
               shown_disabled, error_message, countdowns, presses, attempts,
               calls, history_calls, track_calls>>
keyVars == <<num_keys, current_index, callers>>
ctxVars == <<pending_context, context_log, ctx_msgs>>
logVars == <<append_log, regen_log>>
scopeVars == <<tracked_threads, tracked_channels, last_key>>
setVars == <<context_settings, settings_heap, closure, request_uses>>
userVars == <<pressed_by>>
cfgVars == <<overrides>>
fileVars == <<waiter>>
vars == <<histVars, typingVars, retryVars, keyVars, ctxVars, logVars,
          scopeVars, setVars, userVars, cfgVars, fileVars>>

\* ====================================================== typing manager
\* asyncio.sleep(2.0) in _delayed_stop (typing.py:109), in ticks of a second.
GRACE == 2
\* "time.monotonic() - last_alive < 2.0" (typing.py:116).
KEEP_ALIVE_WINDOW == 2
Msgs == 1 .. MaxMsgs
SessionIds == 1 .. MaxSessions

InitTypingVars ==
  /\ active_messages = {}
  /\ stop_event = 0
  /\ events_set = {}
  /\ task = 0
  /\ sessions = [t \in SessionIds |-> "unused"]
  /\ session_event = [t \in SessionIds |-> 0]
  /\ last_keep_alive = KEEP_ALIVE_WINDOW
  /\ delayed_stops = [d \in 0 .. GRACE |-> 0]
  /\ keep_alives = 0
  /\ ops = <<>>
  /\ since_stop = GRACE
  /\ since_keep_alive = KEEP_ALIVE_WINDOW
  /\ http_failed = FALSE
  /\ route = [m \in Msgs |-> "none"]

\* ========================================================== retry view
\* "max_retries=5" (retry.py:56).
max_retries == 5
PressIds == 1 .. MaxPresses

InitRetryVars ==
  /\ request_pc = "none"
  /\ view_state = "none"
  /\ retry_count = 0
  /\ button_disabled = TRUE
  /\ shown_disabled = TRUE
  /\ error_message = "none"
  /\ countdowns = 0
  /\ presses = [p \in PressIds |-> "idle"]
  /\ attempts = <<>>
  /\ calls = 0
  /\ history_calls = 0
  /\ track_calls = 0

\* ======================================================== key rotation
CallerIds == 1 .. MaxCallers
\* used is a ghost: the indices of the keys the attempts of the call ran
\* with; it is kept for a running call and for one that raised pool-exhausted.
NoCall == [pc |-> "idle", keys_tried |-> 0, total_keys |-> 0, calls |-> 0,
           rotations |-> 0, only_429 |-> TRUE, named |-> 0, used |-> {}]

\* The module-level api_key_manager after APIKeyManager.__init__
\* (gemini.py:38-47, 74); no call of execute_with_retry is running.
InitKeyVars ==
  /\ current_index = 0
  /\ callers = [c \in CallerIds |-> NoCall]

\* ====================================================== pending context
CtxMsgIds == 1 .. MaxCtxMsgs
NoLog == [uses |-> 0, calls |-> 0, returned |-> 0]
NoCtxMsg == [pc |-> "none", key |-> <<"none", 0>>, read |-> FALSE,
             decremented |-> 0, reruns |-> 0]

\* "pending_context = {}" (gemini.py:179); no message is being handled.
InitCtxVars ==
  /\ pending_context = <<>>
  /\ context_log = [k \in HistoryKeys |-> NoLog]
  /\ ctx_msgs = [m \in CtxMsgIds |-> NoCtxMsg]

\* The reaction tasks of a race: one more than a single reaction.
RaceIds == 1 .. (MaxReactions + 1)

InitLogVars ==
  /\ append_log = [k \in HistoryKeys |-> <<>>]
  /\ regen_log = [e \in RaceIds |-> <<>>]

\* The channels of the model; a thread is a channel with an id of its own.
ChannelIds == {10 * i : i \in 1 .. MaxChannels}
NoMessage == [channel_id |-> 0, is_dm |-> FALSE, author |-> 0]
NoKeyCall == [message |-> NoMessage, is_thread |-> FALSE, is_tracked |-> FALSE,
              key |-> <<"none", 0>>]

InitScopeVars ==
  /\ tracked_threads = {}
  /\ tracked_channels = {}
  /\ last_key = NoKeyCall

\* No settings are stored and no request is being handled (gemini.py:160-170).
NoClosure == [pc |-> "none", key |-> <<"none", 0>>, settings |-> 0,
              contents |-> <<>>, reruns |-> 0]

InitSetVars ==
  /\ context_settings = [k \in HistoryKeys |-> 0]
  /\ settings_heap = <<>>
  /\ closure = NoClosure
  /\ request_uses = <<>>

InitUserVars == pressed_by = <<>>

\* No admin_config.json: ConfigManager.load leaves overrides = {}
\* (config_manager.py:12-23).
InitCfgVars == overrides = <<>>

\* No wait_for_file_active call has started.
NoWait == [pc |-> "idle", elapsed |-> 0, poll_time |-> 0, polls |-> 0, state |-> "none"]
InitFileVars == waiter = NoWait

\* ============================================================ history
Content(role, req) == [role |-> role, request |-> req]
\* create_model_content returns None for a None text.
NoContent == [role |-> "none", request |-> 0]

\* A mutant of update_message_history: the overflow eviction is forgotten.
update_message_history_no_evict(mh, key, content) ==
  IF content = NoContent THEN mh
  ELSE IF key \in DOMAIN mh
       THEN [mh EXCEPT ![key] = Append(@, content)]
       ELSE mh @@ (key :> <<content>>)

\* A mutant of update_message_history: the overflow pops the newest entry.
update_message_history_evict_newest(mh, key, content) ==
  IF content = NoContent THEN mh
  ELSE IF key \in DOMAIN mh
       THEN LET appended == Append(mh[key], content)
            IN  [mh EXCEPT ![key] = IF Len(appended) > max_history
                                    THEN SubSeq(appended, 1, Len(appended) - 1)
                                    ELSE appended]
       ELSE mh @@ (key :> <<content>>)

update_message_history(mh, key, content) ==
  IF content = NoContent THEN mh
  ELSE IF key \in DOMAIN mh
       THEN LET appended == Append(mh[key], content)
            IN  [mh EXCEPT ![key] = IF Len(appended) > max_history
                                    THEN Tail(appended)
                                    ELSE appended]
       ELSE mh @@ (key :> <<content>>)

\* TextProcessor.process.update_history: the user entry, then the model entry.
\* The text processor returns before defining it when max_history == 0, the
\* other processors guard the body with max_history > 0.
update_history(mh, key, req) ==
  IF max_history > 0
  THEN update_message_history(
         update_message_history(mh, key, Content("user", req)),
         key, Content("model", req))
  ELSE mh

RemoveAt(s, i) == SubSeq(s, 1, i - 1) \o SubSeq(s, i + 1, Len(s))

\* for i in range(len(history) - 1, -1, -1): if history[i].role == "model"
RECURSIVE FindLastModel(_, _)
FindLastModel(h, i) ==
  IF i = 0 THEN 0
  ELSE IF h[i].role = "model" THEN i
  ELSE FindLastModel(h, i - 1)

PopLastModel(h) ==
  LET i == FindLastModel(h, Len(h)) IN IF i = 0 THEN h ELSE RemoveAt(h, i)

\* "if history_key and history_key in message_history: ... history.pop(i)"
TrimHistory(mh, key) ==
  IF key \in DOMAIN mh THEN [mh EXCEPT ![key] = PopLastModel(@)] ELSE mh

\* ===================================================== ResponseTracker
TrackerIndex(resp, id) ==
  IF \E i \in 1 .. Len(resp) : resp[i].bot_message_id = id
  THEN CHOOSE i \in 1 .. Len(resp) : resp[i].bot_message_id = id
  ELSE 0

\* ResponseTracker.get: the tracking info, or NoInfo for None.
TrackerGet(resp, id) ==
  IF TrackerIndex(resp, id) = 0 THEN NoInfo ELSE resp[TrackerIndex(resp, id)]

\* A mutant of ResponseTracker.remove: the entry is left in place.
TrackerRemoveNothing(resp, id) == resp

\* ResponseTracker.remove
TrackerRemove(resp, id) == SelectSeq(resp, LAMBDA x : x.bot_message_id # id)

\* A mutant of ResponseTracker.track: nothing is dropped at capacity.
TrackerTrackNoEvict(resp, info) ==
  LET i == TrackerIndex(resp, info.bot_message_id)
  IN  IF i = 0 THEN Append(resp, info) ELSE [resp EXCEPT ![i] = info]

\* A mutant of ResponseTracker.track: at capacity the newest entry is dropped.
TrackerTrackEvictNewest(resp, info) ==
  LET base == IF Len(resp) >= MAX_TRACKED_RESPONSES
              THEN SubSeq(resp, 1, Len(resp) - 1) ELSE resp
      i    == TrackerIndex(base, info.bot_message_id)
  IN  IF i = 0 THEN Append(base, info) ELSE [base EXCEPT ![i] = info]

\* ResponseTracker.track: popitem(last=False) at capacity, then the
\* assignment (an OrderedDict keeps the position of a key it already holds).
TrackerTrack(resp, info) ==
  LET base == IF Len(resp) >= MAX_TRACKED_RESPONSES THEN Tail(resp) ELSE resp
      i    == TrackerIndex(base, info.bot_message_id)
  IN  IF i = 0 THEN Append(base, info) ELSE [base EXCEPT ![i] = info]

\* ================================================ delivering a response
NoRequest == [pc |-> "none", author |-> 0, key |-> <<"none", 0>>]

\* A message of user u in scope k arrives and its generation returns a
\* deliverable text (text.py:53-87); send_response_with_retry, not a 503,
\* runs the history callback and waits on the platform for the send
\* (retry.py:239-247).
SendResponse(r, u, k) ==
  /\ requests[r].pc = "none"
  /\ \A q \in Requests : q < r => requests[q].pc # "none"
  /\ message_history' = update_history(message_history, k, r)
  /\ requests' = [requests EXCEPT ![r] = [pc |-> "sending", author |-> u, key |-> k]]
  /\ UNCHANGED <<max_history, responses, next_msg_id, reactions, last_delete, typingVars, retryVars, keyVars, ctxVars, logVars, scopeVars, setVars, userVars, cfgVars, fileVars>>

\* The send returned the message; it is tracked (retry.py:249-263).
TrackResponse(r) ==
  /\ requests[r].pc = "sending"
  /\ responses' = TrackerTrack(responses,
        [bot_message_id |-> next_msg_id, author_id |-> requests[r].author,
         history_key |-> requests[r].key, request |-> r])
  /\ next_msg_id' = next_msg_id + 1
  /\ requests' = [requests EXCEPT ![r] = [NoRequest EXCEPT !.pc = "done"]]
  /\ UNCHANGED <<max_history, message_history, reactions, last_delete, typingVars, retryVars, keyVars, ctxVars, logVars, scopeVars, setVars, userVars, cfgVars, fileVars>>

\* /forget: del message_history[history_key] (general.py:64-65).
Forget(k) ==
  /\ k \in DOMAIN message_history
  /\ message_history' = [x \in (DOMAIN message_history) \ {k} |-> message_history[x]]
  /\ UNCHANGED <<max_history, responses, next_msg_id, reactions, requests,
                 last_delete, typingVars, retryVars, keyVars, ctxVars, logVars, scopeVars, setVars, userVars, cfgVars, fileVars>>

\* ======================================================= reaction tasks
NoReaction == [pc |-> "none", user |-> 0, emoji |-> "none", message_id |-> 0,
               info |-> NoInfo]
\* A task that has returned: its locals are gone.
Finished == [NoReaction EXCEPT !.pc = "done"]
Emojis == {"delete", "regenerate", "other"}
FetchOutcomes == {"ok", "no_channel", "no_message"}

\* on_raw_reaction_add up to its first await (reactions.py:76-97): an emoji
\* that is no action, or a message that is not tracked, ends the task.
ReactionAdd(e, u, em, mid) ==
  /\ reactions[e].pc = "none"
  /\ \A q \in ReactionIds : q < e => reactions[q].pc # "none"
  /\ mid \in 1 .. (next_msg_id - 1)
  \* only a user who can see the response can react to it
  /\ TrackerGet(responses, mid) # NoInfo =>
        TrackerGet(responses, mid).history_key \in KeysOf(u)
  /\ LET info == TrackerGet(responses, mid)
     IN  reactions' = [reactions EXCEPT ![e] =
           IF em = "other" \/ info = NoInfo
           THEN Finished
           ELSE [pc |-> "fetch", user |-> u, emoji |-> em, message_id |-> mid,
                 info |-> info]]
  /\ UNCHANGED <<max_history, message_history, responses, next_msg_id, requests,
                 last_delete, typingVars, retryVars, keyVars, ctxVars, logVars, scopeVars, setVars, userVars, cfgVars, fileVars>>

\* The channel and message fetches return, then the author check
\* (reactions.py:92-128). A message that is gone is dropped from the tracker
\* before the reactor is compared with the author.
ReactionFetch(e, outcome) ==
  /\ reactions[e].pc = "fetch"
  /\ responses' = IF outcome = "no_message"
                  THEN TrackerRemove(responses, reactions[e].message_id)
                  ELSE responses
  /\ reactions' = [reactions EXCEPT ![e] =
        IF outcome # "ok" THEN Finished
        ELSE IF reactions[e].user # reactions[e].info.author_id THEN Finished
        ELSE IF reactions[e].emoji = "delete" THEN [@ EXCEPT !.pc = "delete"]
        ELSE [@ EXCEPT !.pc = "regen_swap"]]
  /\ UNCHANGED <<max_history, message_history, next_msg_id, requests, last_delete, typingVars, retryVars, keyVars, ctxVars, logVars, scopeVars, setVars, userVars, cfgVars, fileVars>>

\* _handle_delete after the platform deletes (reactions.py:147-157).
HandleDelete(e) ==
  /\ reactions[e].pc = "delete"
  /\ responses' = TrackerRemove(responses, reactions[e].message_id)
  /\ message_history' = TrimHistory(message_history, reactions[e].info.history_key)
  /\ last_delete' = [message_id |-> reactions[e].message_id,
                     key |-> reactions[e].info.history_key,
                     before |-> IF reactions[e].info.history_key \in DOMAIN message_history
                                THEN message_history[reactions[e].info.history_key]
                                ELSE <<>>,
                     after |-> IF reactions[e].info.history_key \in DOMAIN message_history'
                               THEN message_history'[reactions[e].info.history_key]
                               ELSE <<>>]
  /\ reactions' = [reactions EXCEPT ![e] = Finished]
  /\ UNCHANGED <<max_history, next_msg_id, requests, typingVars, retryVars, keyVars, ctxVars, logVars, scopeVars, setVars, userVars, cfgVars, fileVars>>

\* _handle_regenerate: the regenerate callback has returned and the old
\* messages are deleted (reactions.py:173-192); the entry leaves the tracker
\* and the last model entry leaves the history (reactions.py:194-203).
RegenerateSwap(e) ==
  /\ reactions[e].pc = "regen_swap"
  /\ responses' = TrackerRemove(responses, reactions[e].message_id)
  /\ message_history' = TrimHistory(message_history, reactions[e].info.history_key)
  /\ reactions' = [reactions EXCEPT ![e].pc = "regen_send"]
  /\ UNCHANGED <<max_history, next_msg_id, requests, last_delete, typingVars, retryVars, keyVars, ctxVars, logVars, scopeVars, setVars, userVars, cfgVars, fileVars>>

\* The new response was sent and is tracked under its new id
\* (reactions.py:205-226).
RegenerateTrack(e) ==
  /\ reactions[e].pc = "regen_send"
  /\ responses' = TrackerTrack(responses,
        [bot_message_id |-> next_msg_id,
         author_id |-> reactions[e].info.author_id,
         history_key |-> reactions[e].info.history_key,
         request |-> reactions[e].info.request])
  /\ next_msg_id' = next_msg_id + 1
  /\ reactions' = [reactions EXCEPT ![e] = Finished]
  /\ UNCHANGED <<max_history, message_history, requests, last_delete, typingVars, retryVars, keyVars, ctxVars, logVars, scopeVars, setVars, userVars, cfgVars, fileVars>>

NoDelete == [message_id |-> 0, key |-> <<"none", 0>>, before |-> <<>>, after |-> <<>>]

InitHistory ==
  /\ max_history \in {0, MaxHistoryCap}
  /\ message_history = <<>>
  /\ responses = <<>>
  /\ next_msg_id = 1
  /\ reactions = [e \in ReactionIds |-> NoReaction]
  /\ requests = [r \in Requests |-> NoRequest]
  /\ last_delete = NoDelete
  /\ InitTypingVars
  /\ InitRetryVars
  /\ InitKeyVars
  /\ InitCtxVars
  /\ InitLogVars
  /\ InitScopeVars
  /\ InitSetVars
  /\ InitUserVars
  /\ InitCfgVars
  /\ InitFileVars
  /\ num_keys = 1

NextHistory ==
  \/ \E r \in Requests, u \in Users : \E k \in KeysOf(u) : SendResponse(r, u, k)
  \/ \E r \in Requests : TrackResponse(r)
  \/ \E k \in HistoryKeys : Forget(k)
  \/ \E e \in ReactionIds, u \in Users, em \in Emojis, mid \in 1 .. (MaxRequests + MaxReactions) :
        ReactionAdd(e, u, em, mid)
  \/ \E e \in ReactionIds, o \in FetchOutcomes : ReactionFetch(e, o)
  \/ \E e \in ReactionIds : HandleDelete(e)
  \/ \E e \in ReactionIds : RegenerateSwap(e)
  \/ \E e \in ReactionIds : RegenerateTrack(e)

SpecHistory == InitHistory /\ [][NextHistory]_vars

\* ------------------------------------------------------------------ C1
\* C1: for every scope key, after every update_message_history call (and
\* after every other mutation) the history of the scope holds at most
\* max_history entries.
C1_HistoryBounded ==
  \A k \in DOMAIN message_history : Len(message_history[k]) <= max_history

\* An append has overflowed: a scope is full and its oldest exchange is gone.
C1_Witness ==
  \E k \in DOMAIN message_history :
    /\ max_history > 0
    /\ Len(message_history[k]) = max_history
    /\ \A i \in 1 .. Len(message_history[k]) : message_history[k][i].request > 1
    /\ requests[1].pc = "done"

\* ------------------------------------------------------------------ C4
IsDeleteStep(e) == reactions[e].pc = "delete" /\ reactions'[e].pc = "done"

\* b with exactly its last model-role entry taken out, the rest in order.
LastModelRemoved(b, a) ==
  \E i \in 1 .. Len(b) :
    /\ b[i].role = "model"
    /\ \A j \in (i + 1) .. Len(b) : b[j].role # "model"
    /\ Len(a) = Len(b) - 1
    /\ \A j \in 1 .. (i - 1) : a[j] = b[j]
    /\ \A j \in i .. Len(a) : a[j] = b[j + 1]

NonAuthorStep(e) ==
  /\ reactions'[e] # reactions[e]
  /\ \/ reactions[e].pc = "none"
     \/ /\ reactions[e].emoji \in {"delete", "regenerate"}
        /\ reactions[e].user # reactions[e].info.author_id

\* C5: no step of on_raw_reaction_add taken for a non-author's delete or
\* regenerate reaction changes message_history or the tracker, the path
\* where fetching the reacted message fails included.
C5_NonAuthorNeverMutates ==
  [][\A e \in ReactionIds : NonAuthorStep(e) =>
        /\ message_history' = message_history
        /\ responses' = responses]_vars

\* ================================================= typing manager: actions
\* A mutant of the test in start_typing: every call starts a session.
NewSessionAlways == TRUE

\* "channel.id not in self._tasks or self._tasks[channel.id].done()"
NewSessionNeeded == task = 0 \/ sessions[task] \in {"returned", "ended"}
UnusedSessions == {t \in SessionIds : sessions[t] = "unused"}
Started == {ops[i][2] : i \in {j \in 1 .. Len(ops) : ops[j][1] = "start"}}

\* The body of start_typing under the channel lock (typing.py:42-51).
StartTypingBody(m) ==
  /\ active_messages' = active_messages \cup {m}
  /\ IF NewSessionNeeded
     THEN \E t \in UnusedSessions :
            /\ \A q \in UnusedSessions : t <= q
            /\ stop_event' = t
            /\ events_set' = events_set \ {t}
            /\ task' = t
            /\ sessions' = [sessions EXCEPT ![t] = "pending"]
     ELSE UNCHANGED <<stop_event, events_set, task, sessions>>

\* A mutant of the body of stop_typing: the stop is signalled at once.
StopTypingNoGrace(m) ==
  /\ active_messages' = active_messages \ {m}
  /\ events_set' = IF active_messages' = {} /\ stop_event # 0
                   THEN events_set \cup {stop_event} ELSE events_set
  /\ UNCHANGED delayed_stops

\* The body of stop_typing under the channel lock (typing.py:62-67): the last
\* message out starts a _delayed_stop task, which first sleeps GRACE.
StopTypingBody(m) ==
  /\ active_messages' = active_messages \ {m}
  /\ delayed_stops' = IF active_messages' = {}
                      THEN [delayed_stops EXCEPT ![GRACE] = @ + 1]
                      ELSE delayed_stops
  /\ UNCHANGED events_set

\* A mutant of the body of force_stop_immediate: the event is left alone.
ForceStopSilent(m) ==
  /\ active_messages' = active_messages \ {m}
  /\ UNCHANGED events_set

\* The body of force_stop_immediate under the channel lock (typing.py:79-85).
ForceStopBody(m) ==
  /\ active_messages' = active_messages \ {m}
  /\ events_set' = IF active_messages' = {} /\ stop_event # 0
                   THEN events_set \cup {stop_event} ELSE events_set

\* ---- the gate called directly
StartTyping(m) ==
  /\ m \notin Started
  /\ \A q \in Msgs : q < m => q \in Started
  /\ StartTypingBody(m)
  /\ ops' = Append(ops, <<"start", m>>)
  /\ UNCHANGED <<session_event, last_keep_alive, since_keep_alive, delayed_stops, keep_alives,
                 since_stop, http_failed, route, histVars, retryVars, keyVars, ctxVars, logVars, scopeVars, setVars, userVars, cfgVars, fileVars>>

\* Every enter is matched by one exit: stop_typing or force_stop_immediate
\* is called for a message that is in flight.
StopTyping(m) ==
  /\ m \in active_messages
  /\ StopTypingBody(m)
  /\ ops' = Append(ops, <<"stop", m>>)
  /\ since_stop' = IF active_messages' = {} THEN 0 ELSE since_stop
  /\ UNCHANGED <<stop_event, task, sessions, session_event, last_keep_alive, since_keep_alive,
                 keep_alives, http_failed, route, histVars, retryVars, keyVars, ctxVars, logVars, scopeVars, setVars, userVars, cfgVars, fileVars>>

ForceStopImmediate(m) ==
  /\ m \in active_messages
  /\ ForceStopBody(m)
  /\ ops' = Append(ops, <<"force_stop", m>>)
  /\ UNCHANGED <<stop_event, task, sessions, session_event, last_keep_alive, since_keep_alive,
                 delayed_stops, keep_alives, since_stop, http_failed, route,
                 histVars, retryVars, keyVars, ctxVars, logVars, scopeVars, setVars, userVars, cfgVars, fileVars>>

\* keep_alive (typing.py:98-99).
KeepAliveBody ==
  /\ keep_alives < MaxKeepAlives
  /\ keep_alives' = keep_alives + 1
  /\ last_keep_alive' = 0
  /\ ops' = Append(ops, <<"keep_alive", 0>>)
  /\ UNCHANGED <<active_messages, stop_event, events_set, task, sessions,
                 session_event, delayed_stops, since_stop, http_failed, route,
                 histVars, retryVars, keyVars, ctxVars, logVars, scopeVars, setVars, userVars, cfgVars, fileVars>>

KeepAlive == KeepAliveBody /\ UNCHANGED since_keep_alive
\* The same call with the ghost clock of the latest call restarted.
KeepAliveTimed == KeepAliveBody /\ since_keep_alive' = 0

\* ---- the background tasks
\* A mutant of the wake-up of _delayed_stop: the stop event is never set.
DelayedStopWakeSilent ==
  /\ delayed_stops[0] > 0
  /\ delayed_stops' = [delayed_stops EXCEPT ![0] = @ - 1]
  /\ UNCHANGED events_set

\* _delayed_stop after its sleep (typing.py:111-123): with nothing in flight,
\* a recent keep_alive starts another _delayed_stop, otherwise the event of
\* the channel, if there is one, is set.
DelayedStopWake ==
  /\ delayed_stops[0] > 0
  /\ IF active_messages = {} /\ last_keep_alive < KEEP_ALIVE_WINDOW
     THEN /\ delayed_stops' = [delayed_stops EXCEPT ![0] = @ - 1, ![GRACE] = @ + 1]
          /\ UNCHANGED events_set
     ELSE /\ delayed_stops' = [delayed_stops EXCEPT ![0] = @ - 1]
          /\ events_set' = IF active_messages = {} /\ stop_event # 0
                           THEN events_set \cup {stop_event} ELSE events_set

DelayedStop ==
  /\ DelayedStopWake
  /\ UNCHANGED <<active_messages, stop_event, task, sessions, session_event,
                 last_keep_alive, since_keep_alive, keep_alives, ops, since_stop, http_failed,
                 route, histVars, retryVars, keyVars, ctxVars, logVars, scopeVars, setVars, userVars, cfgVars, fileVars>>

\* _typing_session starts running (typing.py:132-137): without an event it
\* returns at once and stays in _tasks as a finished task.
SessionStart(t) ==
  /\ sessions[t] = "pending"
  /\ session_event' = [session_event EXCEPT ![t] = stop_event]
  /\ sessions' = [sessions EXCEPT ![t] = IF stop_event = 0 THEN "returned" ELSE "typing"]
  /\ UNCHANGED <<active_messages, stop_event, events_set, task, last_keep_alive, since_keep_alive,
                 delayed_stops, keep_alives, ops, since_stop, http_failed, route,
                 histVars, retryVars, keyVars, ctxVars, logVars, scopeVars, setVars, userVars, cfgVars, fileVars>>

\* The finally block of _typing_session (typing.py:146-153). The lock is free
\* whenever no refresh_if_active holds it, so leaving the loop and the
\* clean-up are one step.
SessionCleanup(t) ==
  /\ sessions' = [sessions EXCEPT ![t] = "ended"]
  /\ task' = 0
  /\ stop_event' = 0
  /\ last_keep_alive' = KEEP_ALIVE_WINDOW
  /\ session_event' = [session_event EXCEPT ![t] = 0]
  /\ UNCHANGED <<active_messages, events_set, delayed_stops, keep_alives, ops,
                 since_stop, since_keep_alive, route, histVars, retryVars, keyVars, ctxVars, logVars, scopeVars, setVars, userVars, cfgVars, fileVars>>

\* The poll loop sees its stop event set (typing.py:140-141).
SessionExit(t) ==
  /\ sessions[t] = "typing"
  /\ session_event[t] \in events_set
  /\ SessionCleanup(t)
  /\ UNCHANGED http_failed

\* channel.typing() raises discord.HTTPException (typing.py:142-143).
SessionHTTPError(t) ==
  /\ sessions[t] = "typing"
  /\ session_event[t] \notin events_set
  /\ SessionCleanup(t)
  /\ http_failed' = TRUE

\* A second passes: the sleeping tasks come closer to waking, the time
\* stamps grow older (ages saturate at the window they are compared with).
TickBody ==
  /\ delayed_stops' = [d \in 0 .. GRACE |->
        IF d = 0 THEN delayed_stops[0] + (IF GRACE >= 1 THEN delayed_stops[1] ELSE 0)
        ELSE IF d = GRACE THEN 0
        ELSE delayed_stops[d + 1]]
  /\ last_keep_alive' = IF last_keep_alive < KEEP_ALIVE_WINDOW
                        THEN last_keep_alive + 1 ELSE last_keep_alive
  /\ since_stop' = IF since_stop < GRACE THEN since_stop + 1 ELSE since_stop
  /\ UNCHANGED <<active_messages, stop_event, events_set, task, sessions,
                 session_event, keep_alives, ops, http_failed, route, histVars, retryVars, keyVars, ctxVars, logVars, scopeVars, setVars, userVars, cfgVars, fileVars>>

Tick == TickBody /\ UNCHANGED since_keep_alive
\* The same second with the ghost clock of the latest keep_alive running.
TickTimed ==
  /\ TickBody
  /\ since_keep_alive' = IF since_keep_alive < KEEP_ALIVE_WINDOW
                         THEN since_keep_alive + 1 ELSE since_keep_alive

InitTyping ==
  /\ InitTypingVars
  /\ InitRetryVars
  /\ InitKeyVars
  /\ InitCtxVars
  /\ InitLogVars
  /\ InitScopeVars
  /\ InitSetVars
  /\ InitUserVars
  /\ InitCfgVars
  /\ InitFileVars
  /\ num_keys = 1
  /\ max_history = 0
  /\ message_history = <<>>
  /\ responses = <<>>
  /\ next_msg_id = 1
  /\ reactions = [e \in ReactionIds |-> NoReaction]
  /\ requests = [r \in Requests |-> NoRequest]
  /\ last_delete = NoDelete

TypingBackground ==
  \/ DelayedStop
  \/ \E t \in SessionIds : SessionStart(t)
  \/ \E t \in SessionIds : SessionExit(t)
  \/ \E t \in SessionIds : SessionHTTPError(t)
  \/ Tick

NextTyping ==
  \/ \E m \in Msgs : StartTyping(m)
  \/ \E m \in Msgs : StopTyping(m)
  \/ \E m \in Msgs : ForceStopImmediate(m)
  \/ KeepAlive
  \/ TypingBackground

SpecTyping == InitTyping /\ [][NextTyping]_vars

\* The event loop runs every task that is ready: a _delayed_stop whose sleep
\* is over, a session task that was created or whose event is set; and time
\* passes. Nothing obliges the callers of the gate or the platform's errors.
TypingFairness ==
  /\ WF_vars(DelayedStop)
  /\ WF_vars(Tick)
  /\ \A t \in SessionIds : WF_vars(SessionStart(t)) /\ WF_vars(SessionExit(t))

FairSpecTyping == SpecTyping /\ TypingFairness

\* A session task is running for the channel and its stop event is not set.
SignalVisible ==
  /\ task # 0
  /\ sessions[task] \in {"pending", "typing"}
  /\ stop_event # 0
  /\ stop_event \notin events_set

\* ------------------------------------------------------------------ C2
\* C2: whenever a message id is in the in-flight set (and the platform has
\* rejected no typing request), a session task is running for the channel
\* and its stop event is not set.
C2_SignalWhileInFlight ==
  (active_messages # {} /\ ~http_failed) => SignalVisible

\* ------------------------------------------------------------------ C7
C7_Scenario == ops = << <<"start", 1>>, <<"stop", 1>> >>

\* C7: after start_typing then stop_typing for the same message, with no
\* other call on the channel, the stop event is not set before the grace
\* period has elapsed since the stop_typing, and (unless the platform
\* rejected the typing request) it is eventually set.
C7_StopAfterGrace ==
  /\ [](C7_Scenario /\ events_set # {} => since_stop >= GRACE)
  /\ ((C7_Scenario /\ ~http_failed) ~>
        (1 \in events_set \/ ~C7_Scenario \/ http_failed))

\* The stop event has been set by the graceful path of the scenario.
C7_Witness ==
  /\ C7_Scenario
  /\ 1 \in events_set
  /\ since_stop = GRACE
  /\ ~http_failed

\* ------------------------------------------------------------------ C8
C8_OneExit ==
  /\ Len(ops) = 3
  /\ ops[1] = <<"start", 1>> /\ ops[2] = <<"start", 2>>
  /\ ops[3][1] = "stop"
C8_TwoExits ==
  /\ Len(ops) = 4
  /\ ops[1] = <<"start", 1>> /\ ops[2] = <<"start", 2>>
  /\ ops[3][1] = "stop" /\ ops[4][1] = "stop"

\* C8: after two start_typing calls and one stop_typing call the stop event
\* is not set and the session keeps running (one request is in flight);
\* after the second stop_typing the stop event is set, not before the grace
\* period has elapsed since that call, and eventually.
C8_SecondExitStops ==
  /\ [](C8_OneExit => /\ Cardinality(active_messages) = 1
                      /\ events_set = {}
                      /\ delayed_stops = [d \in 0 .. GRACE |-> 0]
                      /\ (~http_failed => SignalVisible))
  /\ [](C8_TwoExits /\ events_set # {} => since_stop >= GRACE)
  /\ ((C8_TwoExits /\ ~http_failed) ~>
        (1 \in events_set \/ ~C8_TwoExits \/ http_failed))

\* The second stop_typing has stopped the signal after the grace period.
C8_Witness ==
  /\ C8_TwoExits
  /\ 1 \in events_set
  /\ since_stop = GRACE
  /\ ~http_failed

\* ------------------------------------------------------------------ C9
\* C9: if from some point on no message is in flight (every message entered
\* was removed by stop_typing or force_stop_immediate; keep_alive calls are
\* finitely many), then from some point on the channel has no session task
\* and no stop event: the entries in _tasks and _stop_events are removed.
C9_SessionEnds ==
  <>[](active_messages = {}) =>
     <>[](task = 0 /\ stop_event = 0 /\
          \A t \in SessionIds : sessions[t] \in {"unused", "ended"})

\* Every message entered is out again, a keep_alive was called, and the
\* session that ran for them has ended and is removed.
C9_Witness ==
  /\ Started = Msgs
  /\ active_messages = {}
  /\ keep_alives > 0
  /\ task = 0 /\ stop_event = 0
  /\ \E t \in SessionIds : sessions[t] = "ended"
  /\ ~http_failed

\* ============================================================== router
\* The places where route_message leaves the block that follows start_typing
\* (router.py:76-242): the end of the block, the returns after a dispatch,
\* and the awaits from which the enrichment or a processor can raise.
RouteExits ==
  {<<"normal", 242>>,
   <<"return", 209>>, <<"return", 215>>, <<"return", 221>>, <<"return", 237>>,
   <<"exception", 82>>, <<"exception", 208>>, <<"exception", 214>>,
   <<"exception", 220>>, <<"exception", 232>>, <<"exception", 236>>,
   <<"exception", 242>>}
ExitKinds == {x[1] : x \in RouteExits}

\* A mutant of the try block: only falling off its end reaches the release.
InTryEndOnly(line) == line = 242

\* "try:" at router.py:76 up to "finally:" at router.py:243: the finally
\* block runs for every exit from a line in between.
InTry(line) == line > 76 /\ line < 243

\* route_message returns before start_typing: the bot's own message, an
\* @everyone mention, another bot, or a message that is not addressed to the
\* bot (router.py:35-55).
RouteIgnore(m) ==
  /\ route[m] = "none"
  /\ \A q \in Msgs : q < m => route[q] # "none"
  /\ route' = [route EXCEPT ![m] = "ignored"]
  /\ UNCHANGED <<active_messages, stop_event, events_set, task, sessions,
                 session_event, last_keep_alive, since_keep_alive, delayed_stops, keep_alives,
                 ops, since_stop, http_failed, histVars, retryVars, keyVars, ctxVars, logVars, scopeVars, setVars, userVars, cfgVars, fileVars>>

\* route_message accepts the message and enters the gate (router.py:55-75).
RouteStart(m) ==
  /\ route[m] = "none"
  /\ \A q \in Msgs : q < m => route[q] # "none"
  /\ StartTypingBody(m)
  /\ ops' = Append(ops, <<"start", m>>)
  /\ route' = [route EXCEPT ![m] = "processing"]
  /\ UNCHANGED <<session_event, last_keep_alive, since_keep_alive, delayed_stops, keep_alives,
                 since_stop, http_failed, histVars, retryVars, keyVars, ctxVars, logVars, scopeVars, setVars, userVars, cfgVars, fileVars>>

\* route_message leaves the processing block at exit x; the finally block
\* calls force_stop_immediate (router.py:243-246), and an exception ends in
\* the outer handler (router.py:249-252).
RouteFinish(m, x) ==
  /\ route[m] = "processing"
  /\ IF InTry(x[2])
     THEN /\ ForceStopBody(m)
          /\ ops' = Append(ops, <<"force_stop", m>>)
     ELSE UNCHANGED <<active_messages, events_set, ops>>
  /\ route' = [route EXCEPT ![m] = x[1]]
  /\ UNCHANGED <<stop_event, task, sessions, session_event, last_keep_alive, since_keep_alive,
                 delayed_stops, keep_alives, since_stop, http_failed,
                 histVars, retryVars, keyVars, ctxVars, logVars, scopeVars, setVars, userVars, cfgVars, fileVars>>

NextRouter ==
  \/ \E m \in Msgs : RouteIgnore(m)
  \/ \E m \in Msgs : RouteStart(m)
  \/ \E m \in Msgs, x \in RouteExits : RouteFinish(m, x)
  \/ \E t \in SessionIds : SessionStart(t)
  \/ \E t \in SessionIds : SessionExit(t)
  \/ \E t \in SessionIds : SessionHTTPError(t)

SpecRouter == InitTyping /\ [][NextRouter]_vars

\* ------------------------------------------------------------------ C10
\* C10: for every message for which route_message called start_typing, once
\* route_message has finished (normal completion, early return after a
\* dispatch, or an exception) the message id is not in the in-flight set.
C10_RouteReleases ==
  \A m \in Msgs : route[m] \in ExitKinds => m \notin active_messages

\* One message left by an exception and one by an early return, both
\* released, while the session that ran for them is still being torn down.
C10_Witness ==
  /\ route[1] = "exception"
  /\ route[2] = "return"
  /\ <<"force_stop", 1>> \in {ops[i] : i \in 1 .. Len(ops)}
  /\ <<"force_stop", 2>> \in {ops[i] : i \in 1 .. Len(ops)}
  /\ active_messages = {}

\* ========================================================== retry flow
\* One text request of user 1 in the user's DM scope, its first generation
\* and the RetryView that send_response_with_retry may create for it.
RetryScope == <<"dm", 1>>
\* What a generation returns: the overload text or a deliverable text.
Outcomes == {"503", "ok"}

\* A mutant of is_503_error: no text is recognised as an overload.
is_503_error_never(response_text) == FALSE

\* is_503_error (retry.py:11-22)
is_503_error(response_text) == response_text = "503"

\* TextProcessor.process passes update_history only when history is enabled
\* (text.py:66-76 against text.py:94-100).
HasHistoryCallback == max_history > 0

RetryInfo(id) == [bot_message_id |-> id, author_id |-> 1,
                  history_key |-> RetryScope, request |-> 1]

\* The first generation returns (text.py:70, 87) and send_response_with_retry
\* runs to its first await: the reply carrying a new RetryView for an
\* overload (retry.py:215-230), the history callback and the send otherwise
\* (retry.py:239-247).
RequestGenerated(outcome) ==
  /\ request_pc = "none"
  /\ attempts' = Append(attempts, outcome)
  /\ calls' = calls + 1
  /\ IF is_503_error(outcome)
     THEN /\ request_pc' = "reply"
          /\ UNCHANGED <<message_history, history_calls>>
     ELSE /\ request_pc' = "sending"
          /\ message_history' = update_history(message_history, RetryScope, 1)
          /\ history_calls' = IF HasHistoryCallback THEN history_calls + 1
                              ELSE history_calls
  /\ UNCHANGED <<max_history, responses, next_msg_id, reactions, requests,
                 last_delete, view_state, retry_count, button_disabled,
                 shown_disabled, error_message, countdowns, presses,
                 track_calls, typingVars, keyVars, ctxVars, logVars, scopeVars, setVars, userVars, cfgVars, fileVars>>

\* The error reply is sent with the button disabled; the view is live and
\* its first countdown starts (retry.py:226-238).
ErrorReplySent ==
  /\ request_pc = "reply"
  /\ request_pc' = "done"
  /\ view_state' = "active"
  /\ error_message' = "shown"
  /\ shown_disabled' = button_disabled
  /\ countdowns' = countdowns + 1
  /\ UNCHANGED <<histVars, retry_count, button_disabled, presses, attempts,
                 calls, history_calls, track_calls, typingVars, keyVars, ctxVars, logVars, scopeVars, setVars, userVars, cfgVars, fileVars>>

\* The response of the first attempt is sent and tracked (retry.py:245-263).
ResponseSent ==
  /\ request_pc = "sending"
  /\ request_pc' = "done"
  /\ responses' = TrackerTrack(responses, RetryInfo(next_msg_id))
  /\ next_msg_id' = next_msg_id + 1
  /\ track_calls' = track_calls + 1
  /\ UNCHANGED <<max_history, message_history, reactions, requests,
                 last_delete, view_state, retry_count, button_disabled,
                 shown_disabled, error_message, countdowns, presses, attempts,
                 calls, history_calls, typingVars, keyVars, ctxVars, logVars, scopeVars, setVars, userVars, cfgVars, fileVars>>

\* start_countdown ends (retry.py:94-110): the button is enabled and the
\* message edited; on a deleted message the task may have returned from the
\* loop before enabling the button.
CountdownDone(enabled) ==
  /\ countdowns > 0
  /\ countdowns' = countdowns - 1
  /\ error_message = "shown" => enabled
  /\ button_disabled' = IF enabled THEN FALSE ELSE button_disabled
  /\ shown_disabled' = IF error_message = "shown" THEN FALSE ELSE shown_disabled
  /\ UNCHANGED <<histVars, request_pc, view_state, retry_count, error_message,
                 presses, attempts, calls, history_calls, track_calls,
                 typingVars, keyVars, ctxVars, logVars, scopeVars, setVars, userVars, cfgVars, fileVars>>

\* The author presses the button the platform shows as enabled;
\* interaction_check passes and RetryButton.callback disables the button and
\* awaits the edit of the message (retry.py:82-90, 35-40).
Press(p) ==
  /\ view_state = "active"
  /\ error_message = "shown"
  /\ ~shown_disabled
  /\ presses[p] = "idle"
  /\ \A q \in PressIds : q < p => presses[q] # "idle"
  /\ button_disabled' = TRUE
  /\ presses' = [presses EXCEPT ![p] = "edit"]
  /\ UNCHANGED <<histVars, request_pc, view_state, retry_count, shown_disabled,
                 error_message, countdowns, attempts, calls, history_calls,
                 track_calls, typingVars, keyVars, ctxVars, logVars, scopeVars, setVars, userVars, cfgVars, fileVars>>

\* The edit returns and do_retry counts the attempt and awaits the retry
\* callback (retry.py:40-43, 114-117); the edit of a message that is gone
\* may raise instead, which ends the callback.
PressEdited(p, edited) ==
  /\ presses[p] = "edit"
  /\ error_message = "shown" => edited
  /\ shown_disabled' = IF error_message = "shown" THEN TRUE ELSE shown_disabled
  /\ IF edited
     THEN /\ retry_count' = retry_count + 1
          /\ calls' = calls + 1
          /\ presses' = [presses EXCEPT ![p] = "calling"]
     ELSE /\ presses' = [presses EXCEPT ![p] = "idle"]
          /\ UNCHANGED <<retry_count, calls>>
  /\ UNCHANGED <<histVars, request_pc, view_state, button_disabled,
                 error_message, countdowns, attempts, history_calls,
                 track_calls, typingVars, keyVars, ctxVars, logVars, scopeVars, setVars, userVars, cfgVars, fileVars>>

\* A mutant of the test for the last retry: the bound is never reached.
MaxRetriesNever(count) == FALSE

\* "if self.retry_count >= self.max_retries" (retry.py:121)
MaxRetriesReached(count) == count >= max_retries

\* The retry callback returns (retry.py:117-151): still overloaded, the
\* view is terminal at max_retries and otherwise restarts its countdown
\* (unless the message is gone); a deliverable text goes on to delete the
\* error message.
RetryResult(p, outcome) ==
  /\ presses[p] = "calling"
  /\ attempts' = Append(attempts, outcome)
  /\ IF is_503_error(outcome)
     THEN /\ presses' = [presses EXCEPT ![p] = "idle"]
          /\ button_disabled' = TRUE
          /\ shown_disabled' = IF error_message = "shown" THEN TRUE
                               ELSE shown_disabled
          /\ countdowns' = IF ~MaxRetriesReached(retry_count) /\ error_message = "shown"
                           THEN countdowns + 1 ELSE countdowns
     ELSE /\ presses' = [presses EXCEPT ![p] = "deleting"]
          /\ UNCHANGED <<button_disabled, shown_disabled, countdowns>>
  /\ UNCHANGED <<histVars, request_pc, view_state, retry_count, error_message,
                 calls, history_calls, track_calls, typingVars, keyVars, ctxVars, logVars, scopeVars, setVars, userVars, cfgVars, fileVars>>

\* The error message is deleted, the history callback runs and the response
\* is being sent (retry.py:148-163).
RetryDeleted(p) ==
  /\ presses[p] = "deleting"
  /\ presses' = [presses EXCEPT ![p] = "sending"]
  /\ error_message' = "deleted"
  /\ message_history' = update_history(message_history, RetryScope, 1)
  /\ history_calls' = IF HasHistoryCallback THEN history_calls + 1
                      ELSE history_calls
  /\ UNCHANGED <<max_history, responses, next_msg_id, reactions, requests,
                 last_delete, request_pc, view_state, retry_count,
                 button_disabled, shown_disabled, countdowns, attempts, calls,
                 track_calls, typingVars, keyVars, ctxVars, logVars, scopeVars, setVars, userVars, cfgVars, fileVars>>

\* The response is sent and tracked, and the view stops (retry.py:158-183).
RetrySent(p) ==
  /\ presses[p] = "sending"
  /\ presses' = [presses EXCEPT ![p] = "idle"]
  /\ responses' = TrackerTrack(responses, RetryInfo(next_msg_id))
  /\ next_msg_id' = next_msg_id + 1
  /\ track_calls' = track_calls + 1
  /\ view_state' = "stopped"
  /\ UNCHANGED <<max_history, message_history, reactions, requests,
                 last_delete, request_pc, retry_count, button_disabled,
                 shown_disabled, error_message, countdowns, attempts, calls,
                 history_calls, typingVars, keyVars, ctxVars, logVars, scopeVars, setVars, userVars, cfgVars, fileVars>>

\* on_timeout (retry.py:186-195): the view stops taking interactions.
ViewTimeout ==
  /\ view_state = "active"
  /\ view_state' = "timed_out"
  /\ button_disabled' = TRUE
  /\ shown_disabled' = IF error_message = "shown" THEN TRUE ELSE shown_disabled
  /\ UNCHANGED <<histVars, request_pc, retry_count, error_message, countdowns,
                 presses, attempts, calls, history_calls, track_calls,
                 typingVars, keyVars, ctxVars, logVars, scopeVars, setVars, userVars, cfgVars, fileVars>>

InitRetry == InitHistory

NextRetry ==
  \/ \E o \in Outcomes : RequestGenerated(o)
  \/ ErrorReplySent
  \/ ResponseSent
  \/ \E b \in BOOLEAN : CountdownDone(b)
  \/ \E p \in PressIds : Press(p)
  \/ \E p \in PressIds, b \in BOOLEAN : PressEdited(p, b)
  \/ \E p \in PressIds, o \in Outcomes : RetryResult(p, o)
  \/ \E p \in PressIds : RetryDeleted(p)
  \/ \E p \in PressIds : RetrySent(p)
  \/ ViewTimeout

SpecRetry == InitRetry /\ [][NextRetry]_vars

\* ------------------------------------------------------------------ C3
\* Every generation finished so far reported the overload.
StillFailing ==
  /\ Len(attempts) >= 1
  /\ \A i \in 1 .. Len(attempts) : attempts[i] = "503"
\* The first k generations reported the overload, the next one succeeded,
\* and no other generation was started.
FailsThenSucceeds(k) ==
  /\ Len(attempts) = k + 1
  /\ calls = k + 1
  /\ \A i \in 1 .. k : attempts[i] = "503"
  /\ attempts[k + 1] = "ok"

\* C3: while every attempt of the request has reported the overload, the
\* history callback has not run and nothing is tracked or appended; when the
\* first k attempts (1 <= k <= max_retries) reported the overload and the
\* next one, a retry press, succeeded, the history callback (handed over by
\* the processor) runs no more than once, the response is tracked no more
\* than once and only after the callback, and when the retry has finished
\* both have happened exactly once.
C3_OnceAfterSuccess ==
  /\ StillFailing =>
       /\ history_calls = 0 /\ track_calls = 0
       /\ message_history = <<>> /\ responses = <<>>
  /\ \A k \in 1 .. max_retries : FailsThenSucceeds(k) =>
       /\ history_calls <= 1 /\ track_calls <= 1
       /\ HasHistoryCallback /\ track_calls = 1 => history_calls = 1
       /\ view_state = "stopped" =>
            /\ track_calls = 1 /\ Len(responses) = 1
            /\ HasHistoryCallback =>
                 /\ history_calls = 1
                 /\ message_history =
                      (RetryScope :> <<Content("user", 1), Content("model", 1)>>)

\* The request failed max_retries times, the last press succeeded, and the
\* history was updated once and one response is tracked.
C3_Witness ==
  /\ FailsThenSucceeds(max_retries)
  /\ HasHistoryCallback
  /\ view_state = "stopped"
  /\ history_calls = 1 /\ track_calls = 1
  /\ retry_count = max_retries

\* ======================================================== key rotation
\* What the wrapped call does: it returns, or it raises a 429 rate-limit
\* error, or it raises some other error.
CallOutcomes == {"ok", "429", "other"}

\* is_rate_limit_error (gemini.py:80-83)
is_rate_limit_error(error) == error = "429"

\* rotate_key (gemini.py:54-66): whether it rotates, and the index it moves to.
CanRotate == num_keys > 1
RotatedIndex == (current_index + 1) % num_keys

\* A mutant of the loop bound: the count of keys tried is never looked at.
KeysLeftAlways(keys_tried, total_keys) == TRUE

\* "while keys_tried < total_keys" and "if keys_tried < total_keys"
\* (gemini.py:127, 138).
KeysLeft(keys_tried, total_keys) == keys_tried < total_keys

\* execute_with_retry up to its first await (gemini.py:123-130); the wrapped
\* lambda reads api_key_manager.client as the attempt starts. With an
\* empty pool the loop is skipped and, last_error being None, the function
\* falls off its end (gemini.py:151-153).
ExecStart(c) ==
  /\ callers[c].pc = "idle"
  /\ \A q \in CallerIds : q < c => callers[q].pc # "idle"
  /\ callers' = [callers EXCEPT ![c] =
        IF KeysLeft(0, num_keys)
        THEN [@ EXCEPT !.pc = "calling", !.total_keys = num_keys, !.calls = 1,
                       !.used = {current_index}]
        ELSE [@ EXCEPT !.pc = "returned_none", !.total_keys = num_keys]]
  /\ UNCHANGED <<num_keys, current_index, histVars, typingVars, retryVars, ctxVars, logVars, scopeVars, setVars, userVars, cfgVars, fileVars>>

\* The wrapped call returns or raises (gemini.py:130-149): a 429 counts the
\* key and, with keys left and a successful rotate_key, the loop calls
\* again; otherwise the pool-exhausted error naming total_keys is raised.
\* Any other error is re-raised at once.
CallReturns(c, outcome) ==
  /\ callers[c].pc = "calling"
  /\ IF outcome = "ok"
     THEN /\ callers' = [callers EXCEPT ![c].pc = "returned",
                                         ![c].only_429 = FALSE,
                                         ![c].used = {}]
          /\ UNCHANGED current_index
     ELSE IF ~is_rate_limit_error(outcome)
     THEN /\ callers' = [callers EXCEPT ![c].pc = "raised_other",
                                         ![c].only_429 = FALSE,
                                         ![c].used = {}]
          /\ UNCHANGED current_index
     ELSE IF /\ KeysLeft(callers[c].keys_tried + 1, callers[c].total_keys)
             /\ CanRotate
     THEN /\ current_index' = RotatedIndex
          /\ callers' = [callers EXCEPT ![c].keys_tried = @ + 1,
                                         ![c].rotations = @ + 1,
                                         ![c].calls = @ + 1,
                                         ![c].used = @ \cup {RotatedIndex}]
     ELSE /\ callers' = [callers EXCEPT ![c].keys_tried = @ + 1,
                                         ![c].pc = "raised_exhausted",
                                         ![c].named = callers[c].total_keys]
          /\ UNCHANGED current_index
  /\ UNCHANGED <<num_keys, histVars, typingVars, retryVars, ctxVars, logVars, scopeVars, setVars, userVars, cfgVars, fileVars>>

\* The pool is what _load_api_keys found: any number of keys, none included.
InitKeys ==
  /\ num_keys \in 0 .. MaxKeys
  /\ InitKeyVars
  /\ InitCtxVars
  /\ InitLogVars
  /\ InitScopeVars
  /\ InitSetVars
  /\ InitUserVars
  /\ InitCfgVars
  /\ InitFileVars
  /\ InitRetryVars
  /\ InitTypingVars
  /\ max_history = 0
  /\ message_history = <<>>
  /\ responses = <<>>
  /\ next_msg_id = 1
  /\ reactions = [e \in ReactionIds |-> NoReaction]
  /\ requests = [r \in Requests |-> NoRequest]
  /\ last_delete = NoDelete

NextKeys ==
  \/ \E c \in CallerIds : ExecStart(c)
  \/ \E c \in CallerIds, o \in CallOutcomes : CallReturns(c, o)

SpecKeys == InitKeys /\ [][NextKeys]_vars

\* asyncio.to_thread resumes the caller when the wrapped call has returned
\* or raised; nothing obliges a new execute_with_retry call to be made.
FairSpecKeys ==
  SpecKeys /\ \A c \in CallerIds : WF_vars(\E o \in CallOutcomes : CallReturns(c, o))

\* ------------------------------------------------------------------ C6
\* The call of c has ended: it returned or raised.
Ended(c) == callers[c].pc \notin {"idle", "calling"}

\* C6: with a pool of N >= 1 keys, a call of execute_with_retry whose every
\* attempt reports 429 invokes the wrapped call at most N times (once and
\* without rotating when N = 1) and ends, after exactly N attempts, with the
\* pool-exhausted error that names N; and every call that is waiting for the
\* wrapped call eventually ends.
C6_BoundedAttempts ==
  /\ [](\A c \in CallerIds : (num_keys >= 1 /\ callers[c].only_429) =>
          /\ callers[c].calls <= num_keys
          /\ num_keys = 1 => callers[c].rotations = 0
          /\ Ended(c) => /\ callers[c].pc = "raised_exhausted"
                         /\ callers[c].named = num_keys
                         /\ callers[c].calls = num_keys)
  /\ \A c \in CallerIds : (callers[c].pc = "calling") ~> Ended(c)

\* With the largest pool, one call has tried every key and raised the
\* pool-exhausted error while the other one is still rotating.
C6_Witness ==
  /\ num_keys = MaxKeys
  /\ callers[1].pc = "raised_exhausted"
  /\ callers[1].only_429
  /\ callers[1].calls = MaxKeys
  /\ callers[1].named = MaxKeys
  /\ callers[2].pc = "calling"
  /\ callers[2].rotations > 0

\* ==================================================== deletes in a scope
\* Responses are delivered and their authors delete them; the configured
\* max_history is large enough that no append overflows.
InitDeletes ==
  /\ max_history = 2 * MaxRequests
  /\ message_history = <<>>
  /\ responses = <<>>
  /\ next_msg_id = 1
  /\ reactions = [e \in ReactionIds |-> NoReaction]
  /\ requests = [r \in Requests |-> NoRequest]
  /\ last_delete = NoDelete
  /\ InitTypingVars
  /\ InitRetryVars
  /\ InitKeyVars
  /\ InitCtxVars
  /\ InitLogVars
  /\ InitScopeVars
  /\ InitSetVars
  /\ InitUserVars
  /\ InitCfgVars
  /\ InitFileVars
  /\ num_keys = 1

\* The author of a tracked response adds the delete reaction to it.
AuthorDelete(e, mid) ==
  /\ TrackerGet(responses, mid) # NoInfo
  /\ ReactionAdd(e, TrackerGet(responses, mid).author_id, "delete", mid)

NextDeletes ==
  \/ \E r \in Requests, u \in Users : \E k \in KeysOf(u) : SendResponse(r, u, k)
  \/ \E r \in Requests : TrackResponse(r)
  \/ \E e \in ReactionIds, mid \in 1 .. MaxRequests : AuthorDelete(e, mid)
  \/ \E e \in ReactionIds : ReactionFetch(e, "ok")
  \/ \E e \in ReactionIds : HandleDelete(e)

SpecDeletes == InitDeletes /\ [][NextDeletes]_vars

\* ------------------------------------------------------------------ C11
\* The requests whose model-role entry is in the history of scope k.
ModelRequests(k) ==
  IF k \in DOMAIN message_history
  THEN {message_history[k][i].request :
          i \in {j \in 1 .. Len(message_history[k]) :
                   message_history[k][j].role = "model"}}
  ELSE {}
\* The requests whose response in scope k is delivered and not deleted.
VisibleRequests(k) ==
  {responses[i].request :
     i \in {j \in 1 .. Len(responses) : responses[j].history_key = k}}
NoTaskRunning ==
  /\ \A r \in Requests : requests[r].pc \in {"none", "done"}
  /\ \A e \in ReactionIds : reactions[e].pc \in {"none", "done"}

\* C11: when no delivery and no delete is in progress, the model-role
\* entries of every scope's history are exactly those of the responses of
\* that scope that were delivered and not deleted.
C11_HistoryMatchesVisible ==
  NoTaskRunning => \A k \in HistoryKeys : ModelRequests(k) = VisibleRequests(k)

\* ------------------------------------------- presses one after the other
\* A press that arrives when no earlier press is still being handled.
SeqPress(p) ==
  /\ \A q \in PressIds : presses[q] = "idle"
  /\ Press(p)

NextRetrySeq ==
  \/ \E o \in Outcomes : RequestGenerated(o)
  \/ ErrorReplySent
  \/ ResponseSent
  \/ \E b \in BOOLEAN : CountdownDone(b)
  \/ \E p \in PressIds : SeqPress(p)
  \/ \E p \in PressIds, b \in BOOLEAN : PressEdited(p, b)
  \/ \E p \in PressIds, o \in Outcomes : RetryResult(p, o)
  \/ \E p \in PressIds : RetryDeleted(p)
  \/ \E p \in PressIds : RetrySent(p)
  \/ ViewTimeout

SpecRetrySeq == InitRetry /\ [][NextRetrySeq]_vars

\* ------------------------------------------------------------------ C12
\* The max_retries-th attempt of the view has reported the overload.
MaxedOut ==
  /\ retry_count = max_retries
  /\ Len(attempts) = max_retries + 1
  /\ attempts[max_retries + 1] = "503"

HasPendingContext(pc, key) == key \in DOMAIN pc

\* get_pending_context_remaining (gemini.py:262-274)
Remaining(pc, key) == IF key \in DOMAIN pc THEN pc[key].remaining_uses ELSE 0

\* "listen_channel = None if (is_tracked or is_dm) else channel_id"
\* (context.py:226-227); 0 stands for None.
ListenChannelOf(key) == IF key[1] \in {"dm", "thread", "tracked"} THEN 0 ELSE 20

\* set_pending_context (gemini.py:182-195)
set_pending_context(pc, key, uses, listen) ==
  [k \in (DOMAIN pc) \cup {key} |->
     IF k = key THEN [remaining_uses |-> uses, listen_channel_id |-> listen]
     ELSE pc[k]]

\* A mutant of decrement_pending_context: the entry goes only below zero.
decrement_below_zero(pc, key) ==
  IF key \notin DOMAIN pc THEN pc
  ELSE IF pc[key].remaining_uses - 1 < 0
       THEN [k \in (DOMAIN pc) \ {key} |-> pc[k]]
       ELSE [pc EXCEPT ![key].remaining_uses = @ - 1]

\* decrement_pending_context (gemini.py:214-232): the dict after the call ...
decrement_pending_context(pc, key) ==
  IF key \notin DOMAIN pc THEN pc
  ELSE IF pc[key].remaining_uses - 1 <= 0
       THEN [k \in (DOMAIN pc) \ {key} |-> pc[k]]
       ELSE [pc EXCEPT ![key].remaining_uses = @ - 1]

\* ... and the value it returns.
decrement_returns(pc, key) ==
  IF key \notin DOMAIN pc THEN 0
  ELSE IF pc[key].remaining_uses - 1 <= 0 THEN 0
  ELSE pc[key].remaining_uses - 1

\* A mutant of the retry callback: it reads and consumes the context again.
retry_callback_rereads(pc, key) == decrement_pending_context(pc, key)

\* The retry_callback closures (text.py:72-73, 90-91; images.py:71-75) run
\* the generation again on the contents built by the first run; they do not
\* touch pending_context.
retry_callback(pc, key) == pc

\* ============================================== pending context: actions
\* /context (context.py:215-228) or the settings view (settings.py:304-306)
\* stores a context for the scope.
SetPendingContext(k, n) ==
  /\ pending_context' = set_pending_context(pending_context, k, n, ListenChannelOf(k))
  /\ context_log' = [context_log EXCEPT ![k] = [uses |-> n, calls |-> 0, returned |-> 0]]
  /\ UNCHANGED <<ctx_msgs, histVars, typingVars, retryVars, keyVars, logVars, scopeVars, setVars, userVars, cfgVars, fileVars>>

\* decrement_pending_context called directly, up to twice more than the
\* entry has uses.
DecrementCall(k) ==
  /\ context_log[k].calls < context_log[k].uses + 2
  /\ pending_context' = decrement_pending_context(pending_context, k)
  /\ context_log' = [context_log EXCEPT
        ![k].calls = @ + 1,
        ![k].returned = decrement_returns(pending_context, k)]
  /\ UNCHANGED <<ctx_msgs, histVars, typingVars, retryVars, keyVars, logVars, scopeVars, setVars, userVars, cfgVars, fileVars>>

\* The text or image processor handles message m of scope k up to its first
\* await (text.py:53-70, images.py:51-66): a non-empty pending context is
\* read and decremented, then the generation is awaited.
CtxProcess(m, k) ==
  /\ ctx_msgs[m].pc = "none"
  /\ \A q \in CtxMsgIds : q < m => ctx_msgs[q].pc # "none"
  /\ IF HasPendingContext(pending_context, k)
     THEN /\ pending_context' = decrement_pending_context(pending_context, k)
          /\ context_log' = [context_log EXCEPT
                ![k].calls = @ + 1,
                ![k].returned = decrement_returns(pending_context, k)]
     ELSE UNCHANGED <<pending_context, context_log>>
  /\ ctx_msgs' = [ctx_msgs EXCEPT ![m] =
        [pc |-> "generating", key |-> k,
         read |-> HasPendingContext(pending_context, k),
         decremented |-> Remaining(pending_context, k) - Remaining(pending_context', k),
         reruns |-> 0]]
  /\ UNCHANGED <<histVars, typingVars, retryVars, keyVars, logVars, scopeVars, setVars, userVars, cfgVars, fileVars>>

\* The first generation returns: an overload shows the retry view, anything
\* else is delivered (retry.py:215-263).
CtxGenerated(m, outcome) ==
  /\ ctx_msgs[m].pc = "generating"
  /\ ctx_msgs' = [ctx_msgs EXCEPT ![m].pc =
        IF is_503_error(outcome) THEN "retry_view" ELSE "delivered"]
  /\ UNCHANGED <<pending_context, context_log, histVars, typingVars, retryVars,
                 keyVars, logVars, scopeVars, setVars, userVars, cfgVars, fileVars>>

\* The callback of message m runs again.
CtxRerun(m) ==
  /\ ctx_msgs[m].reruns < MaxReruns
  /\ pending_context' = retry_callback(pending_context, ctx_msgs[m].key)
  /\ UNCHANGED context_log

\* A retry press runs the callback (retry.py:117) and its result is
\* delivered or shows the view again.
CtxRetry(m, outcome) ==
  /\ ctx_msgs[m].pc = "retry_view"
  /\ CtxRerun(m)
  /\ ctx_msgs' = [ctx_msgs EXCEPT
        ![m].pc = IF is_503_error(outcome) THEN "retry_view" ELSE "delivered",
        ![m].reruns = @ + 1,
        ![m].decremented = @ + Remaining(pending_context, ctx_msgs[m].key)
                             - Remaining(pending_context', ctx_msgs[m].key)]
  /\ UNCHANGED <<histVars, typingVars, retryVars, keyVars, logVars, scopeVars, setVars, userVars, cfgVars, fileVars>>

\* A regenerate reaction runs the same callback (reactions.py:184; the
\* callback is the one tracked at retry.py:172-179, 253-260).
CtxRegenerate(m) ==
  /\ ctx_msgs[m].pc = "delivered"
  /\ CtxRerun(m)
  /\ ctx_msgs' = [ctx_msgs EXCEPT
        ![m].reruns = @ + 1,
        ![m].decremented = @ + Remaining(pending_context, ctx_msgs[m].key)
                             - Remaining(pending_context', ctx_msgs[m].key)]
  /\ UNCHANGED <<histVars, typingVars, retryVars, keyVars, logVars, scopeVars, setVars, userVars, cfgVars, fileVars>>

\* The two functions called directly.
NextContextCalls ==
  \/ \E k \in HistoryKeys, n \in 1 .. MaxUses : SetPendingContext(k, n)
  \/ \E k \in HistoryKeys : DecrementCall(k)

SpecContextCalls == InitTyping /\ [][NextContextCalls]_vars

\* The commands and the processors.
NextContext ==
  \/ \E k \in HistoryKeys, n \in 1 .. MaxUses : SetPendingContext(k, n)
  \/ \E m \in CtxMsgIds, k \in HistoryKeys : CtxProcess(m, k)
  \/ \E m \in CtxMsgIds, o \in Outcomes : CtxGenerated(m, o)
  \/ \E m \in CtxMsgIds, o \in Outcomes : CtxRetry(m, o)
  \/ \E m \in CtxMsgIds : CtxRegenerate(m)

SpecContext == InitTyping /\ [][NextContext]_vars

\* ------------------------------------------------------------------ C13
\* C13: a message that read a pending context has lowered remaining_uses of
\* its scope's entry by exactly one in total, whatever retries and
\* regenerations ran for it and however the messages of the scope and the
\* /context commands interleave; a message that read none has lowered none.
C13_DecrementedOnce ==
  \A m \in CtxMsgIds : ctx_msgs[m].pc # "none" =>
     ctx_msgs[m].decremented = (IF ctx_msgs[m].read THEN 1 ELSE 0)

\* Two messages of one scope both read the context, one was retried after
\* an overload and the other regenerated, each of them as often as allowed.
C13_Witness ==
  /\ ctx_msgs[1].read /\ ctx_msgs[2].read
  /\ ctx_msgs[1].key = ctx_msgs[2].key
  /\ ctx_msgs[1].pc = "retry_view" /\ ctx_msgs[1].reruns = MaxReruns
  /\ ctx_msgs[2].pc = "delivered" /\ ctx_msgs[2].reruns = MaxReruns
  /\ ctx_msgs[1].decremented = 1 /\ ctx_msgs[2].decremented = 1

\* ------------------------------------------------------------------ C14
\* C14: for the entry a scope was last given, created with remaining_uses =
\* N >= 1 and decremented by nothing but decrement_pending_context: after N
\* calls the scope has no entry and the N-th call returned 0; after N - 1
\* calls the entry is there with remaining_uses = 1; a call on a scope
\* without an entry returns 0 and leaves pending_context as it is.
C14_DecrementCountsDown ==
  /\ [](\A k \in HistoryKeys :
          LET log == context_log[k] IN
          /\ (log.uses >= 1 /\ log.calls = log.uses) =>
                ~HasPendingContext(pending_context, k) /\ log.returned = 0
          /\ (log.uses >= 1 /\ log.calls = log.uses - 1) =>
                /\ HasPendingContext(pending_context, k)
                /\ pending_context[k].remaining_uses = 1
          /\ log.calls > log.uses =>
                ~HasPendingContext(pending_context, k) /\ log.returned = 0)
  /\ [][\A k \in HistoryKeys :
          (DecrementCall(k) /\ ~HasPendingContext(pending_context, k)) =>
             pending_context' = pending_context]_vars

\* A context created with the largest number of uses has been decremented
\* to its last use, then away, and then called once more on the empty scope.
C14_Witness ==
  \E k \in HistoryKeys :
    /\ context_log[k].uses = MaxUses
    /\ context_log[k].calls = MaxUses + 1
    /\ context_log[k].returned = 0
    /\ ~HasPendingContext(pending_context, k)

\* ================================================== appends to one scope
\* The number of exchanges the appends specification delivers.
MaxExchanges == 3

\* The exchanges whose update_history callback has run, over all scopes.
ExchangesDone ==
  Cardinality({c.request : c \in UNION {{append_log[k][i] : i \in 1 .. Len(append_log[k])}
                                          : k \in HistoryKeys}})

\* The history callback of one exchange in scope k (text.py:93-100,
\* images.py:78-83): the user entry, then the model entry, which
\* create_model_content leaves None for a None text; update_message_history
\* returns at once for None (gemini.py:466-467).
AppendExchange(k, no_text) ==
  LET r == ExchangesDone + 1
      model == IF no_text THEN NoContent ELSE Content("model", r)
      with_user == update_message_history(message_history, k, Content("user", r))
  IN  /\ max_history > 0
      /\ r <= MaxExchanges
      /\ message_history' = update_message_history(with_user, k, model)
      /\ append_log' = [append_log EXCEPT ![k] =
            IF no_text THEN Append(@, Content("user", r))
            ELSE Append(Append(@, Content("user", r)), Content("model", r))]
      /\ UNCHANGED <<max_history, responses, next_msg_id, reactions, requests,
                     last_delete, regen_log, typingVars, retryVars, keyVars,
                     ctxVars, scopeVars, setVars, userVars, cfgVars, fileVars>>

InitAppends ==
  /\ max_history \in 0 .. MaxHistoryCap + 1
  /\ message_history = <<>>
  /\ responses = <<>>
  /\ next_msg_id = 1
  /\ reactions = [e \in ReactionIds |-> NoReaction]
  /\ requests = [r \in Requests |-> NoRequest]
  /\ last_delete = NoDelete
  /\ InitTypingVars
  /\ InitRetryVars
  /\ InitKeyVars
  /\ InitCtxVars
  /\ InitLogVars
  /\ InitScopeVars
  /\ InitSetVars
  /\ InitUserVars
  /\ InitCfgVars
  /\ InitFileVars
  /\ num_keys = 1

NextAppends ==
  \E k \in HistoryKeys, no_text \in BOOLEAN : AppendExchange(k, no_text)

SpecAppends == InitAppends /\ [][NextAppends]_vars

\* message_history.get(history_key, []) (gemini.py:491).
HistoryOf(k) == IF k \in DOMAIN message_history THEN message_history[k] ELSE <<>>

MinOf(a, b) == IF a < b THEN a ELSE b

\* The last n entries of s.
LastN(s, n) == SubSeq(s, Len(s) - n + 1, Len(s))

\* Three complete exchanges, all of them in scope k.
ThreeExchanges(k) ==
  append_log[k] = <<Content("user", 1), Content("model", 1),
                    Content("user", 2), Content("model", 2),
                    Content("user", 3), Content("model", 3)>>

\* C15: after any sequence of non-null appends to one scope the history is
\* the most recent min(n, max_history) appended entries in append order, and
\* with max_history = 2 and three user+model exchanges it is the last user
\* entry followed by the last model entry.
C15_HistoryIsRecentSuffix ==
  \A k \in HistoryKeys :
    /\ HistoryOf(k) = LastN(append_log[k], MinOf(Len(append_log[k]), max_history))
    /\ (max_history = 2 /\ ThreeExchanges(k))
         => HistoryOf(k) = <<Content("user", 3), Content("model", 3)>>

C15_Witness ==
  \E k \in HistoryKeys :
    /\ max_history = 2
    /\ ThreeExchanges(k)
    /\ message_history[k] = <<Content("user", 3), Content("model", 3)>>

\* ================================================== the scope of a message
\* A mutant of get_history_key: the tracked channel is looked at first.
get_history_key_tracked_first(message) ==
  IF message.channel_id \in tracked_channels
  THEN <<"tracked", message.author>>
  ELSE IF message.channel_id \in tracked_threads
  THEN <<"thread", message.channel_id>>
  ELSE IF message.is_dm
  THEN <<"dm", message.author>>
  ELSE <<"mention", message.author>>

\* get_history_key (gemini.py:433-458).
get_history_key(message) ==
  IF message.channel_id \in tracked_threads
  THEN <<"thread", message.channel_id>>
  ELSE IF message.is_dm
  THEN <<"dm", message.author>>
  ELSE IF message.channel_id \in tracked_channels
  THEN <<"tracked", message.author>>
  ELSE <<"mention", message.author>>

Messages == [channel_id : ChannelIds, is_dm : BOOLEAN, author : Users]

\* /create-thread: tracked_threads.append(thread.id) (general.py:33-34).
CreateThread(c) ==
  /\ c \notin tracked_threads
  /\ tracked_threads' = tracked_threads \cup {c}
  /\ UNCHANGED <<tracked_channels, last_key, histVars, typingVars, retryVars,
                 keyVars, ctxVars, logVars, setVars, userVars, cfgVars, fileVars>>

\* A processor asks for the scope of a message (text.py:52, images.py:51).
GetHistoryKey(message) ==
  /\ last_key' = [message |-> message,
                  is_thread |-> message.channel_id \in tracked_threads,
                  is_tracked |-> message.channel_id \in tracked_channels,
                  key |-> get_history_key(message)]
  /\ UNCHANGED <<tracked_threads, tracked_channels, histVars, typingVars,
                 retryVars, keyVars, ctxVars, logVars, setVars, userVars, cfgVars, fileVars>>

\* config.tracked_channels is any list of channel ids (config.py:50-52);
\* no thread is tracked when the bot starts (gemini.py:157).
InitScope ==
  /\ max_history = MaxHistoryCap
  /\ message_history = <<>>
  /\ responses = <<>>
  /\ next_msg_id = 1
  /\ reactions = [e \in ReactionIds |-> NoReaction]
  /\ requests = [r \in Requests |-> NoRequest]
  /\ last_delete = NoDelete
  /\ InitTypingVars
  /\ InitRetryVars
  /\ InitKeyVars
  /\ InitCtxVars
  /\ InitLogVars
  /\ num_keys = 1
  /\ tracked_threads = {}
  /\ tracked_channels \in SUBSET ChannelIds
  /\ last_key = NoKeyCall
  /\ InitSetVars
  /\ InitUserVars
  /\ InitCfgVars
  /\ InitFileVars

NextScope ==
  \/ \E c \in ChannelIds : CreateThread(c)
  \/ \E message \in Messages : GetHistoryKey(message)

SpecScope == InitScope /\ [][NextScope]_vars

\* The key the fixed priority Thread > DirectMessage > TrackedChannel >
\* Mention chooses for the three facts about the channel.
PriorityKey(is_thread, is_dm, is_tracked, channel_id, author) ==
  CASE is_thread -> <<"thread", channel_id>>
    [] ~is_thread /\ is_dm -> <<"dm", author>>
    [] ~is_thread /\ ~is_dm /\ is_tracked -> <<"tracked", author>>
    [] OTHER -> <<"mention", author>>

\* C16: for every combination of (tracked thread, direct message, tracked
\* channel) get_history_key returns the one key of the fixed priority
\* Thread(channel id) > DirectMessage(user id) > TrackedChannel(user id) >
\* Mention(user id); a tracked thread that is also a tracked channel yields
\* the Thread key.
C16_KeyByPriority ==
  last_key # NoKeyCall =>
    LET m == last_key.message
    IN  /\ last_key.key = PriorityKey(last_key.is_thread, m.is_dm,
                                      last_key.is_tracked, m.channel_id, m.author)
        /\ (last_key.is_thread /\ last_key.is_tracked)
             => last_key.key = <<"thread", m.channel_id>>

C16_Witness ==
  /\ last_key # NoKeyCall
  /\ last_key.is_thread
  /\ last_key.is_tracked
  /\ last_key.key = <<"thread", last_key.message.channel_id>>

\* ============================================ the tracker at its capacity
\* The message ids the tracker specification hands out: more than fit.
MaxTracks == MAX_TRACKED_RESPONSES + 2

\* response_tracker.track is called for the response to user u's direct
\* message (retry.py:249-263), under message id mid: a new id, or one that
\* was tracked before.
TrackCall(mid, u) ==
  /\ mid <= next_msg_id
  /\ mid <= MaxTracks
  /\ responses' = TrackerTrack(responses,
        [bot_message_id |-> mid, author_id |-> u, history_key |-> <<"dm", u>>,
         request |-> 0])
  /\ next_msg_id' = IF mid = next_msg_id THEN next_msg_id + 1 ELSE next_msg_id
  /\ UNCHANGED <<max_history, message_history, reactions, requests,
                 last_delete, typingVars, retryVars, keyVars, ctxVars, logVars,
                 scopeVars, setVars, userVars, cfgVars, fileVars>>

InitTracker ==
  /\ InitHistory
  /\ max_history = MaxHistoryCap

\* track calls, and delete reactions for the get and remove calls
\* (reactions.py:87, 102, 149).
NextTracker ==
  \/ \E mid \in 1 .. MaxTracks, u \in Users : TrackCall(mid, u)
  \/ \E e \in ReactionIds, u \in Users, mid \in 1 .. MaxTracks :
        ReactionAdd(e, u, "delete", mid)
  \/ \E e \in ReactionIds, o \in {"ok", "no_message"} : ReactionFetch(e, o)
  \/ \E e \in ReactionIds : HandleDelete(e)

SpecTracker == InitTracker /\ [][NextTracker]_vars

\* C17: after any sequence of ResponseTracker.track, get and remove calls the
\* number of tracked responses never exceeds max_size.
C17_TrackerBounded == Len(responses) <= MAX_TRACKED_RESPONSES

\* More responses were tracked than fit, and the tracker is full.
C17_Witness ==
  /\ next_msg_id > MAX_TRACKED_RESPONSES + 1
  /\ Len(responses) = MAX_TRACKED_RESPONSES
  /\ TrackerGet(responses, 1) = NoInfo
  /\ \A e \in ReactionIds : reactions[e].pc = "none"

\* ------------------------------------------------------------------ C18
\* C18: for every pool size, the empty pool included, and every failure
\* pattern of the wrapped call, execute_with_retry ends by returning the
\* result of a successful call or by raising an error; it never returns
\* without a result.
C18_ResultOrError ==
  \A c \in CallerIds :
    Ended(c) => callers[c].pc \in {"returned", "raised_other", "raised_exhausted"}

\* ------------------------------------------------------------------ C19
\* C19: when several execute_with_retry calls run concurrently on the one
\* APIKeyManager, a call that ends with the pool-exhausted error has
\* attempted every key of the pool exactly once.
C19_EveryKeyOnce ==
  \A c \in CallerIds :
    callers[c].pc = "raised_exhausted" =>
      /\ callers[c].used = 0 .. (num_keys - 1)
      /\ callers[c].calls = num_keys

\* ===================================== two reactions on the same response
\* The scope and the author of the race, and the response reacted to.
RaceUser == 1
RaceKey == <<"dm", RaceUser>>
RaceTarget == 1

InitRace ==
  /\ max_history = 2 * MaxRequests
  /\ message_history = <<>>
  /\ responses = <<>>
  /\ next_msg_id = 1
  /\ reactions = [e \in RaceIds |-> NoReaction]
  /\ requests = [r \in Requests |-> NoRequest]
  /\ last_delete = NoDelete
  /\ InitTypingVars
  /\ InitRetryVars
  /\ InitKeyVars
  /\ InitCtxVars
  /\ InitLogVars
  /\ InitScopeVars
  /\ InitSetVars
  /\ InitUserVars
  /\ InitCfgVars
  /\ InitFileVars
  /\ num_keys = 1

\* The author adds the delete or the regenerate reaction to the response.
RaceAdd(e, em) ==
  /\ TrackerGet(responses, RaceTarget) # NoInfo
  /\ ReactionAdd(e, RaceUser, em, RaceTarget)

\* channel.fetch_message (reactions.py:100) finds the message as long as no
\* handler has deleted it, which is as long as it is tracked
\* (reactions.py:140-149, 186-195); afterwards it raises NotFound.
RaceFetch(e) ==
  IF TrackerGet(responses, reactions[e].message_id) # NoInfo
  THEN ReactionFetch(e, "ok")
  ELSE ReactionFetch(e, "no_message")

NextRace ==
  \/ \E r \in Requests : SendResponse(r, RaceUser, RaceKey)
  \/ \E r \in Requests : TrackResponse(r)
  \/ \E e \in RaceIds, em \in {"delete", "regenerate"} : RaceAdd(e, em)
  \/ \E e \in RaceIds : RaceFetch(e)
  \/ \E e \in RaceIds : HandleDelete(e)
  \/ \E e \in RaceIds : RegenerateSwap(e)
  \/ \E e \in RaceIds : RegenerateTrack(e)

SpecRace == InitRace /\ [][NextRace]_vars

\* The requests whose model-role entry was appended to the scope of the race
\* (retry.py:239-241) and is no longer in its history.
ModelsRemoved ==
  {r \in Requests : requests[r].pc # "none"} \ ModelRequests(RaceKey)

\* C20: when two reaction actions by the author on the same tracked response
\* (delete and delete, or delete and regenerate) are processed as
\* interleaved tasks, in total at most one model-role entry is removed from
\* the scope's history for that response.
C20_OneRemovalPerResponse == Cardinality(ModelsRemoved) <= 1

\* ------------------------------------------------------------------ C21
\* C21: when two retry-button interactions of the author on the same
\* RetryView are processed as overlapping tasks, the history callback still
\* runs at most once, at most one response is delivered and tracked for the
\* request, and retry_callback is invoked at most max_retries times.
C21_OverlapStillOnce ==
  /\ history_calls <= 1
  /\ track_calls <= 1
  /\ Len(responses) <= 1
  /\ retry_count <= max_retries

\* ===================================================== the regenerate flow
\* _handle_regenerate step by step, in the scope of one author (RaceUser,
\* RaceKey); Outcomes are the texts the regenerate callback may return.
InitRegen ==
  /\ max_history = 2 * MaxRequests
  /\ message_history = <<>>
  /\ responses = <<>>
  /\ next_msg_id = 1
  /\ reactions = [e \in RaceIds |-> NoReaction]
  /\ requests = [r \in Requests |-> NoRequest]
  /\ last_delete = NoDelete
  /\ InitTypingVars
  /\ InitRetryVars
  /\ InitKeyVars
  /\ InitCtxVars
  /\ InitLogVars
  /\ InitScopeVars
  /\ InitSetVars
  /\ InitUserVars
  /\ InitCfgVars
  /\ InitFileVars
  /\ num_keys = 1

\* The author adds the regenerate reaction to a tracked response.
AuthorRegenerate(e, mid) ==
  /\ TrackerGet(responses, mid) # NoInfo
  /\ ReactionAdd(e, TrackerGet(responses, mid).author_id, "regenerate", mid)

\* The bot's own reaction is removed and the regenerate callback is invoked
\* inside channel.typing() (reactions.py:173-184).
RegenerateInvoke(e) ==
  /\ reactions[e].pc = "regen_swap"
  /\ reactions' = [reactions EXCEPT ![e].pc = "regen_calling"]
  /\ regen_log' = [regen_log EXCEPT ![e] = Append(@, "invoke")]
  /\ UNCHANGED <<max_history, message_history, responses, next_msg_id,
                 requests, last_delete, append_log, typingVars, retryVars,
                 keyVars, ctxVars, scopeVars, setVars, userVars, cfgVars, fileVars>>

\* A mutant of CallbackReturned: the handler does not wait for the callback.
CallbackReturnedEarly(e) == reactions[e].pc \in {"regen_swap", "regen_calling"}

\* "new_response = await regenerate_callback()" has returned
\* (reactions.py:184).
CallbackReturned(e) == reactions[e].pc = "regen_calling"

\* The callback returned its text; the old messages are deleted, the entry
\* leaves the tracker, the last model entry leaves the history and the new
\* text is being sent (reactions.py:184-212).
RegenerateReturns(e, outcome) ==
  /\ CallbackReturned(e)
  /\ responses' = TrackerRemove(responses, reactions[e].message_id)
  /\ message_history' = TrimHistory(message_history, reactions[e].info.history_key)
  /\ reactions' = [reactions EXCEPT ![e].pc = "regen_send"]
  /\ regen_log' = [regen_log EXCEPT ![e] =
        Append(Append(@, IF is_503_error(outcome) THEN "returned_503"
                         ELSE "returned_ok"), "trim")]
  /\ UNCHANGED <<max_history, next_msg_id, requests, last_delete, append_log,
                 typingVars, retryVars, keyVars, ctxVars, scopeVars, setVars, userVars, cfgVars, fileVars>>

\* The callback raised: the handler reports the failure and ends
\* (reactions.py:228-236).
RegenerateRaises(e) ==
  /\ reactions[e].pc = "regen_calling"
  /\ reactions' = [reactions EXCEPT ![e] = Finished]
  /\ regen_log' = [regen_log EXCEPT ![e] = Append(@, "raised")]
  /\ UNCHANGED <<max_history, message_history, responses, next_msg_id,
                 requests, last_delete, append_log, typingVars, retryVars,
                 keyVars, ctxVars, scopeVars, setVars, userVars, cfgVars, fileVars>>

\* The new text was sent and is tracked under its new id
\* (reactions.py:205-226).
RegenerateSent(e) ==
  /\ reactions[e].pc = "regen_send"
  /\ responses' = TrackerTrack(responses,
        [bot_message_id |-> next_msg_id,
         author_id |-> reactions[e].info.author_id,
         history_key |-> reactions[e].info.history_key,
         request |-> reactions[e].info.request])
  /\ next_msg_id' = next_msg_id + 1
  /\ reactions' = [reactions EXCEPT ![e] = Finished]
  /\ regen_log' = [regen_log EXCEPT ![e] = Append(@, "track")]
  /\ UNCHANGED <<max_history, message_history, requests, last_delete,
                 append_log, typingVars, retryVars, keyVars, ctxVars,
                 scopeVars, setVars, userVars, cfgVars, fileVars>>

NextRegen ==
  \/ \E r \in Requests : SendResponse(r, RaceUser, RaceKey)
  \/ \E r \in Requests : TrackResponse(r)
  \/ \E e \in RaceIds, mid \in 1 .. (MaxRequests + MaxReactions + 1) :
        AuthorRegenerate(e, mid)
  \/ \E e \in RaceIds : ReactionFetch(e, "ok")
  \/ \E e \in RaceIds : RegenerateInvoke(e)
  \/ \E e \in RaceIds, o \in Outcomes : RegenerateReturns(e, o)
  \/ \E e \in RaceIds : RegenerateRaises(e)
  \/ \E e \in RaceIds : RegenerateSent(e)

SpecRegen == InitRegen /\ [][NextRegen]_vars

\* Step s is in the log of task e, at position i.
LoggedAt(e, s, i) == i \in 1 .. Len(regen_log[e]) /\ regen_log[e][i] = s
Logged(e, s) == \E i \in 1 .. Len(regen_log[e]) : LoggedAt(e, s, i)

\* ------------------------------------------------------------------ C22
\* C22 as stated: in the regenerate flow the history trim happens before the
\* regenerate callback is invoked, and the re-tracking happens after it.
C22_TrimBeforeCallback ==
  \A e \in RaceIds :
    /\ \A i, j \in 1 .. Len(regen_log[e]) :
         (LoggedAt(e, "invoke", i) /\ LoggedAt(e, "trim", j)) => j < i
    /\ \A i, j \in 1 .. Len(regen_log[e]) :
         (LoggedAt(e, "invoke", i) /\ LoggedAt(e, "track", j)) => i < j

\* C22 amended: the regenerate callback is invoked first; the history trim
\* happens only after the callback was invoked and has returned, and the
\* re-tracking happens only after the trim.
C22_CallbackThenTrimThenTrack ==
  \A e \in RaceIds :
    /\ \A j \in 1 .. Len(regen_log[e]) :
         LoggedAt(e, "trim", j) =>
           \E i \in 1 .. (j - 1) :
             /\ LoggedAt(e, "invoke", i)
             /\ \E k \in (i + 1) .. (j - 1) :
                  regen_log[e][k] \in {"returned_ok", "returned_503"}
    /\ \A j \in 1 .. Len(regen_log[e]) :
         LoggedAt(e, "track", j) => \E i \in 1 .. (j - 1) : LoggedAt(e, "trim", i)

C22_Witness ==
  \E e \in RaceIds :
    regen_log[e] = <<"invoke", "returned_ok", "trim", "track">>

\* ------------------------------------------------------------------ C23
\* No delivery and no reaction task is in progress.
RegenQuiet ==
  /\ \A r \in Requests : requests[r].pc \in {"none", "done"}
  /\ \A e \in RaceIds : reactions[e].pc \in {"none", "done"}

\* C23: after a successful regenerate of a tracked response the old model
\* entry was removed and the new one added, so the scope's history holds as
\* many model-role entries as before the regenerate: one for every exchange
\* delivered in the scope.
C23_RegenerateKeepsModelCount ==
  (RegenQuiet /\ \E e \in RaceIds : Logged(e, "returned_ok") /\ Logged(e, "track"))
    => ModelsRemoved = {}

\* ------------------------------------------------------------------ C24
\* C24: a regenerate whose generation reports the transient overload goes
\* through the retry flow again: a retry view is presented and nothing is
\* tracked as a delivered response for it, rather than the overload text
\* being delivered and tracked as the new response.
C24_OverloadedRegenerateRetries ==
  \A e \in RaceIds :
    Logged(e, "returned_503") =>
      /\ ~Logged(e, "track")
      /\ reactions[e].pc = "done" => view_state = "active"

\* ============================== the request a retry runs, and the settings
\* Number of settings dicts created in one behaviour.
MaxDicts == 3
ThinkingLevels == {"minimal", "high"}
\* default_settings (gemini.py:167-170)
default_settings == [thinking_level |-> "minimal", persona |-> "none"]

\* context_settings.get(settings_key, default_settings.copy())
\* (gemini.py:368, settings.py:81): the stored dict itself, or a new copy of
\* the defaults; the result is the heap after the call and the dict's id.
SettingsGet(k) ==
  IF context_settings[k] # 0
  THEN [heap |-> settings_heap, id |-> context_settings[k]]
  ELSE [heap |-> Append(settings_heap, default_settings),
        id |-> Len(settings_heap) + 1]

\* ThinkingSelect.callback (settings.py:79-89): the dict that get returned
\* is changed in place and stored under the key.
ThinkingSelect(k, level) ==
  LET got == SettingsGet(k)
  IN  /\ Len(got.heap) <= MaxDicts
      /\ settings_heap' = [got.heap EXCEPT ![got.id].thinking_level = level]
      /\ context_settings' = [context_settings EXCEPT ![k] = got.id]
      /\ UNCHANGED <<closure, request_uses, histVars, typingVars, retryVars,
                     keyVars, ctxVars, logVars, scopeVars, userVars, cfgVars, fileVars>>

\* The router reads the settings of the message's scope (router.py:60-61)
\* and hands them to the text processor.
RequestRouted(k) ==
  LET got == SettingsGet(k)
  IN  /\ closure.pc = "none"
      /\ Len(got.heap) <= MaxDicts
      /\ settings_heap' = got.heap
      /\ closure' = [closure EXCEPT !.pc = "routed", !.key = k, !.settings = got.id]
      /\ UNCHANGED <<context_settings, request_uses, histVars, typingVars,
                     retryVars, keyVars, ctxVars, logVars, scopeVars, userVars, cfgVars, fileVars>>

\* What generate_response_with_text reads as it is called with contents and
\* the settings dict (gemini.py:535-541).
RequestUse(contents, settings) ==
  [contents |-> contents, settings |-> settings_heap[settings]]

\* TextProcessor.process builds contents as a new list from the scope's
\* history and the user entry and calls the generation (text.py:78-87).
RequestProcessed ==
  LET contents == Append(HistoryOf(closure.key), Content("user", 0))
  IN  /\ closure.pc = "routed"
      /\ closure' = [closure EXCEPT !.pc = "generating", !.contents = contents]
      /\ request_uses' = Append(request_uses, RequestUse(contents, closure.settings))
      /\ UNCHANGED <<context_settings, settings_heap, histVars, typingVars,
                     retryVars, keyVars, ctxVars, logVars, scopeVars, userVars, cfgVars, fileVars>>

\* The generation returns: the overload text leaves a retry view
\* (retry.py:215-238), a deliverable text ends the request.
RequestReturned(outcome) ==
  /\ closure.pc = "generating"
  /\ closure' = [closure EXCEPT !.pc = IF is_503_error(outcome) THEN "view"
                                       ELSE "done"]
  /\ UNCHANGED <<context_settings, settings_heap, request_uses, histVars,
                 typingVars, retryVars, keyVars, ctxVars, logVars, scopeVars, userVars, cfgVars, fileVars>>

\* The author presses retry and do_retry awaits retry_callback, which calls
\* the generation with the contents and the settings dict the closure holds
\* (retry.py:114-117, text.py:90-91).
RequestRetried ==
  /\ closure.pc = "view"
  /\ closure.reruns < MaxReruns + 1
  /\ closure' = [closure EXCEPT !.pc = "generating", !.reruns = @ + 1]
  /\ request_uses' = Append(request_uses,
                            RequestUse(closure.contents, closure.settings))
  /\ UNCHANGED <<context_settings, settings_heap, histVars, typingVars,
                 retryVars, keyVars, ctxVars, logVars, scopeVars, userVars, cfgVars, fileVars>>

InitSettings == InitDeletes

\* One request, the settings command, and the command and the exchanges that
\* change the history of a scope meanwhile.
NextSettings ==
  \/ \E k \in HistoryKeys, level \in ThinkingLevels : ThinkingSelect(k, level)
  \/ \E k \in HistoryKeys : RequestRouted(k)
  \/ RequestProcessed
  \/ \E o \in Outcomes : RequestReturned(o)
  \/ RequestRetried
  \/ \E r \in Requests : SendResponse(r, RaceUser, RaceKey)
  \/ Forget(RaceKey)

SpecSettings == InitSettings /\ [][NextSettings]_vars

\* ------------------------------------------------------------------ C25
\* C25: every retry attempt of a request uses the same constructed request
\* as its first attempt, the same contents and the same settings, even if
\* the scope's history or settings were changed in between.
C25_RetryUsesSameRequest ==
  \A i \in 1 .. Len(request_uses) : request_uses[i] = request_uses[1]

\* ================================== the users who click the retry button
\* Number of clicks on the button in one behaviour.
MaxClicks == 3
\* A mutant of the check: every user passes.
interaction_check_anyone(user) == TRUE

\* RetryView.interaction_check (retry.py:82-90): only the author of the
\* original message passes; another user gets an ephemeral refusal.
interaction_check(user) == user = RetryInfo(0).author_id

\* A user clicks the enabled button. The view runs interaction_check first
\* and the button's callback only when it passed (retry.py:35-40, 82-90):
\* the callback disables the button and awaits the edit, as in Press; a
\* refused click ends there.
Interaction(p, user) ==
  /\ view_state = "active"
  /\ error_message = "shown"
  /\ ~shown_disabled
  /\ presses[p] = "idle"
  /\ \A q \in PressIds : q < p => presses[q] # "idle"
  /\ Len(pressed_by) < MaxClicks
  /\ pressed_by' = Append(pressed_by, user)
  /\ IF interaction_check(user)
     THEN /\ button_disabled' = TRUE
          /\ presses' = [presses EXCEPT ![p] = "edit"]
     ELSE UNCHANGED <<button_disabled, presses>>
  /\ UNCHANGED <<histVars, request_pc, view_state, retry_count, shown_disabled,
                 error_message, countdowns, attempts, calls, history_calls,
                 track_calls, typingVars, keyVars, ctxVars, logVars, scopeVars,
                 setVars, cfgVars, fileVars>>

\* The request and its view as in NextRetry, with the button open to every
\* user who sees the message.
NextRetryUsers ==
  \/ \E o \in Outcomes : RequestGenerated(o)
  \/ ErrorReplySent
  \/ ResponseSent
  \/ \E b \in BOOLEAN : CountdownDone(b)
  \/ \E p \in PressIds, u \in Users : Interaction(p, u)
  \/ \E p \in PressIds, b \in BOOLEAN : PressEdited(p, b)
  \/ \E p \in PressIds, o \in Outcomes : RetryResult(p, o)
  \/ \E p \in PressIds : RetryDeleted(p)
  \/ \E p \in PressIds : RetrySent(p)
  \/ ViewTimeout

SpecRetryUsers == InitRetry /\ [][NextRetryUsers]_vars

\* The number of clicks made by the requester, and by anyone else.
OwnPresses ==
  Cardinality({i \in 1 .. Len(pressed_by) :
                 pressed_by[i] = RetryInfo(0).author_id})
OtherPresses == Len(pressed_by) - OwnPresses

\* ------------------------------------------------------------------ C26
\* C26: an interaction on the RetryView by a user other than the requester
\* never reaches retry_callback: retry_count and the generations started
\* count the requester's clicks only, and while the requester has not
\* clicked and the request is still failing, the scope's history and the
\* tracker are untouched.
C26_OnlyRequesterRetries ==
  /\ retry_count <= OwnPresses
  /\ calls <= 1 + OwnPresses
  /\ (OwnPresses = 0 /\ \A i \in 1 .. Len(attempts) : attempts[i] = "503")
       => /\ retry_count = 0
          /\ message_history = <<>>
          /\ responses = <<>>
          /\ history_calls = 0
          /\ track_calls = 0
\* Another user clicked, and the requester's own click then retried.
C26_Witness ==
  /\ OtherPresses >= 1
  /\ OwnPresses = 1
  /\ retry_count = 1
  /\ pressed_by[1] # RetryInfo(0).author_id

\* ============================================ typing manager: the grace
\* A step of _delayed_stop that sets the stop event (no gate call is made).
GracefulSet == events_set' # events_set /\ ops' = ops
\* A _delayed_stop task is asleep or due while nothing is in flight and the
\* session of the channel runs with its event not set.
GracePending ==
  /\ active_messages = {}
  /\ \E d \in 0 .. GRACE : delayed_stops[d] > 0
  /\ SignalVisible

\* ------------------------------------------------------------------ C27
\* C27: the graceful path never sets the stop event sooner than one grace
\* period after the most recent stop_typing that emptied the in-flight set,
\* and a start_typing during a pending grace period keeps the session of
\* the channel and leaves its stop event unset.
C27_StopOnlyAfterGrace ==
  [][/\ GracefulSet => since_stop >= GRACE
     /\ (GracePending /\ Len(ops') > Len(ops) /\ ops'[Len(ops')][1] = "start")
          => (task' = task /\ stop_event' = stop_event /\ events_set' = events_set)
    ]_vars

\* The gate and its tasks as in NextTyping, with the age of the latest
\* keep_alive call measured.
NextTypingTimed ==
  \/ \E m \in Msgs : StartTyping(m)
  \/ \E m \in Msgs : StopTyping(m)
  \/ \E m \in Msgs : ForceStopImmediate(m)
  \/ KeepAliveTimed
  \/ DelayedStop
  \/ \E t \in SessionIds : SessionStart(t)
  \/ \E t \in SessionIds : SessionExit(t)
  \/ \E t \in SessionIds : SessionHTTPError(t)
  \/ TickTimed

SpecTypingTimed == InitTyping /\ [][NextTypingTimed]_vars

\* ------------------------------------------------------------------ C28
\* C28: a keep_alive call leaves the in-flight set, the session task and the
\* stop event of the channel as they are, and the graceful path never sets
\* the stop event less than the keep-alive window (2 s) after the most
\* recent keep_alive call.
C28_KeepAliveDefersStop ==
  [][/\ (Len(ops') > Len(ops) /\ ops'[Len(ops')][1] = "keep_alive")
          => UNCHANGED <<active_messages, task, sessions, stop_event, events_set>>
     /\ GracefulSet => since_keep_alive >= KEEP_ALIVE_WINDOW
    ]_vars

\* ------------------------------------------------------------------ C29
\* C29: force_stop_immediate removes the message from the in-flight set; if
\* the set becomes empty the stop event of the channel is set in that same
\* step, and if other messages are still in flight the step sets no event.
C29_ForceStopIsImmediate ==
  [][\A m \in Msgs :
       (Len(ops') > Len(ops) /\ ops'[Len(ops')] = <<"force_stop", m>>)
         => /\ active_messages' = active_messages \ {m}
            /\ IF active_messages' = {}
               THEN stop_event # 0 => stop_event \in events_set'
               ELSE events_set' = events_set
    ]_vars
\* Two messages were in flight and both left by force_stop_immediate: the
\* first call left the event alone, the second set it.
C29_Witness ==
  /\ Len(ops) = 4
  /\ ops[3][1] = "force_stop" /\ ops[4][1] = "force_stop"
  /\ active_messages = {}
  /\ stop_event # 0
  /\ stop_event \in events_set
  /\ delayed_stops = [d \in 0 .. GRACE |-> 0]

\* The session tasks that were created and have not finished.
RunningSessions == {t \in SessionIds : sessions[t] \in {"pending", "typing"}}

\* ------------------------------------------------------------------ C30
\* C30: at most one typing session task of the channel is running at any
\* time, and a step creates a session task only when the channel has no
\* session task or the one it has is finished.
C30_OneSessionPerChannel ==
  /\ [](Cardinality(RunningSessions) <= 1)
  /\ [][RunningSessions' \ RunningSessions # {} => RunningSessions = {}]_vars
\* A first session has ended, a second one runs, and both messages in flight
\* share it.
C30_Witness ==
  /\ \E t \in SessionIds : sessions[t] = "ended"
  /\ Cardinality(RunningSessions) = 1
  /\ Cardinality(active_messages) = 2
  /\ \A t \in RunningSessions : sessions[t] = "typing" /\ task = t

\* ======================================= the kinds of message and the context
\* The kinds the router hands to a processor whose process takes four
\* arguments (videos.py:24, files.py:24, websites.py:24, youtube.py:23).
FourArgKinds == {"video", "file", "website", "youtube"}

\* The router calls process of the video, file, website or YouTube processor
\* with five arguments (router.py:214, 220, 232, 236): the call raises
\* TypeError before the body runs, so the pending context is neither read
\* nor decremented, and the router's handler only prints (router.py:248-251).
\* pending is a ghost: the scope had an entry when the message came.
RouteFourArgKind(m, k, kind) ==
  /\ ctx_msgs[m].pc = "none"
  /\ \A q \in CtxMsgIds : q < m => ctx_msgs[q].pc # "none"
  /\ ctx_msgs' = [ctx_msgs EXCEPT ![m] =
        [pc |-> "raised", key |-> k, read |-> FALSE, decremented |-> 0,
         reruns |-> 0, kind |-> kind,
         pending |-> HasPendingContext(pending_context, k)]]
  /\ UNCHANGED <<pending_context, context_log, histVars, typingVars, retryVars,
                 keyVars, logVars, scopeVars, setVars, userVars, cfgVars, fileVars>>

\* The /context command and the messages of every kind.
NextKinds ==
  \/ \E k \in HistoryKeys, n \in 1 .. MaxUses : SetPendingContext(k, n)
  \/ \E m \in CtxMsgIds, k \in HistoryKeys : CtxProcess(m, k)
  \/ \E m \in CtxMsgIds, k \in HistoryKeys, kind \in FourArgKinds :
        RouteFourArgKind(m, k, kind)
  \/ \E m \in CtxMsgIds, o \in Outcomes : CtxGenerated(m, o)

SpecKinds == InitTyping /\ [][NextKinds]_vars

\* ------------------------------------------------------------------ C31
\* C31: every accepted message of a scope that has a pending context when
\* the message comes, whatever its kind, uses the context and consumes one
\* use of it.
C31_EveryKindConsumes ==
  \A m \in CtxMsgIds :
    LET c == ctx_msgs[m]
        pending == IF c.pc = "raised" THEN c.pending ELSE c.read
    IN  (c.pc # "none" /\ pending) => (c.read /\ c.decremented = 1)

\* ================================================ commands and their scopes
\* Number of pending-context entries stored at a time.
MaxEntries == 1
\* dynamic_config.tracked_channels: ConfigManager.get returns the override
\* when there is one and config.tracked_channels otherwise
\* (config_manager.py:33-44, 85-92).
dynamic_tracked_channels ==
  IF "tracked_channels" \in DOMAIN overrides
  THEN overrides["tracked_channels"] ELSE tracked_channels

\* The context key /context builds (context.py:215-224).
context_key(interaction) ==
  IF interaction.channel_id \in tracked_threads
  THEN <<"thread", interaction.channel_id>>
  ELSE IF interaction.is_dm
  THEN <<"dm", interaction.author>>
  ELSE IF interaction.channel_id \in dynamic_tracked_channels
  THEN <<"tracked", interaction.author>>
  ELSE <<"mention", interaction.author>>

\* A mutant of has_auto_respond_for_channel: the entries of every user count.
has_auto_respond_for_anyone(pc, user_id, channel_id) ==
  \E k \in DOMAIN pc : pc[k].listen_channel_id = channel_id

\* has_auto_respond_for_channel (gemini.py:307-324).
has_auto_respond_for_channel(pc, user_id, channel_id) ==
  \E k \in DOMAIN pc : k[2] = user_id /\ pc[k].listen_channel_id = channel_id

\* /context (context.py:47-53, 215-228): the entry is stored under the
\* context key, with the channel to listen in unless the channel is tracked
\* or a DM (0 stands for None).
ContextCommand(interaction, n) ==
  LET is_tracked == \/ interaction.channel_id \in dynamic_tracked_channels
                    \/ interaction.channel_id \in tracked_threads
      listen == IF is_tracked \/ interaction.is_dm THEN 0
                ELSE interaction.channel_id
  IN  /\ pending_context' = set_pending_context(pending_context,
                               context_key(interaction), n, listen)
      /\ Cardinality(DOMAIN pending_context') <= MaxEntries
      /\ UNCHANGED <<scopeVars, context_log, ctx_msgs,
                     histVars, typingVars, retryVars, keyVars, logVars, setVars,
                     userVars, cfgVars, fileVars>>

\* The router accepts a text message (router.py:48-55) and the text
\* processor uses the pending context of the message's scope (text.py:52-59).
AcceptedText(message, bot_mentioned) ==
  /\ \/ message.is_dm
     \/ message.channel_id \in dynamic_tracked_channels
     \/ message.channel_id \in tracked_threads
     \/ bot_mentioned
     \/ has_auto_respond_for_channel(pending_context, message.author,
                                     message.channel_id)
  /\ pending_context' = decrement_pending_context(pending_context,
                                                  get_history_key(message))
  /\ UNCHANGED <<scopeVars, context_log, ctx_msgs,
                 histVars, typingVars, retryVars, keyVars, logVars, setVars,
                 userVars, cfgVars, fileVars>>

\* The history key /forget builds (general.py:44-62).
forget_key(interaction) ==
  IF interaction.channel_id \in tracked_threads
  THEN <<"thread", interaction.channel_id>>
  ELSE IF interaction.is_dm
  THEN <<"dm", interaction.author>>
  ELSE IF interaction.channel_id \in dynamic_tracked_channels
  THEN <<"tracked", interaction.author>>
  ELSE <<"mention", interaction.author>>

\* /forget (general.py:44-75): the history and the pending context of the
\* key are deleted.
ForgetCommand(interaction) ==
  LET key == forget_key(interaction)
  IN  /\ message_history' = [k \in (DOMAIN message_history) \ {key} |->
                                message_history[k]]
      /\ pending_context' = [k \in (DOMAIN pending_context) \ {key} |->
                                pending_context[k]]
      /\ UNCHANGED <<max_history, responses, next_msg_id, reactions, requests,
                     last_delete, scopeVars, context_log,
                     ctx_msgs, typingVars, retryVars, keyVars, logVars, setVars,
                     userVars, cfgVars, fileVars>>

\* The reset of the admin panel (admin_config.py:116-117).
ResetOverrides ==
  /\ overrides' = <<>>
  /\ UNCHANGED <<histVars, typingVars, retryVars, keyVars, ctxVars, logVars,
                 scopeVars, setVars, userVars, fileVars>>

\* The lists of tracked channels a configuration names: none, or one of the
\* first two channels.
ConfiguredLists == {{}, {10}, {20}}

\* config.tracked_channels is a list of channel ids and admin_config.json
\* may hold an override of it (config.py:50-52, config_manager.py:15-23).
InitCommands ==
  /\ max_history = MaxHistoryCap
  /\ message_history = <<>>
  /\ responses = <<>>
  /\ next_msg_id = 1
  /\ reactions = [e \in ReactionIds |-> NoReaction]
  /\ requests = [r \in Requests |-> NoRequest]
  /\ last_delete = NoDelete
  /\ InitTypingVars
  /\ InitRetryVars
  /\ InitKeyVars
  /\ InitCtxVars
  /\ InitLogVars
  /\ InitSetVars
  /\ InitUserVars
  /\ InitFileVars
  /\ num_keys = 1
  /\ tracked_threads = {}
  /\ tracked_channels \in ConfiguredLists
  /\ last_key = NoKeyCall
  /\ overrides \in {<<>>} \cup
       {[n \in {"tracked_channels"} |-> S] : S \in ConfiguredLists}

NextCommands ==
  \/ \E c \in ChannelIds : CreateThread(c)
  \/ \E i \in Messages, n \in 1 .. MaxUses : ContextCommand(i, n)
  \/ \E m \in Messages, b \in BOOLEAN : AcceptedText(m, b)
  \/ \E i \in Messages : ForgetCommand(i)
  \/ ResetOverrides

SpecCommands == InitCommands /\ [][NextCommands]_vars

\* ------------------------------------------------------------------ C32
\* C32: has_auto_respond_for_channel(user, channel) is true exactly when a
\* stored pending-context entry under the DM, tracked or mention key of that
\* user has listen_channel_id equal to the channel; so it is false again once
\* that entry is used up, overwritten with another channel, or cleared.
C32_AutoRespondIffOwnEntry ==
  \A u \in Users, c \in ChannelIds :
    has_auto_respond_for_channel(pending_context, u, c) <=>
      \E kind \in {"dm", "tracked", "mention"} :
        /\ <<kind, u>> \in DOMAIN pending_context
        /\ pending_context[<<kind, u>>].listen_channel_id = c
\* One user is listened to in a channel that is neither tracked nor a DM,
\* with the largest number of uses, and another user is not.
C32_Witness ==
  \E u, v \in Users, c \in ChannelIds :
    /\ u # v
    /\ has_auto_respond_for_channel(pending_context, u, c)
    /\ ~has_auto_respond_for_channel(pending_context, v, c)
    /\ pending_context[<<"mention", u>>].remaining_uses = MaxUses
    /\ c \notin dynamic_tracked_channels \cup tracked_threads

\* get_settings_key_from_interaction (settings.py:25-44) and get_settings_key
\* (gemini.py:330-355): both read config.tracked_channels.
get_settings_key_from_interaction(interaction) ==
  IF interaction.channel_id \in tracked_threads
  THEN <<"thread", interaction.channel_id>>
  ELSE IF interaction.is_dm
  THEN <<"dm", interaction.author>>
  ELSE IF interaction.channel_id \in tracked_channels
  THEN <<"tracked", interaction.author>>
  ELSE <<"mention", interaction.author>>

\* ------------------------------------------------------------------ C33
\* C33: for the same channel, user and configuration state, an override of
\* the tracked-channel list included, message processing (get_history_key),
\* /forget, /context and the settings commands derive the same scope key.
C33_OneKeyForAll ==
  \A m \in Messages :
    /\ forget_key(m) = get_history_key(m)
    /\ context_key(m) = get_history_key(m)
    /\ get_settings_key_from_interaction(m) = get_history_key(m)

\* ============================================ exchanges of one scope
\* Text requests of one user in the user's DM scope, each in its own
\* route_message task: generation, the history callback, the send, and the
\* retry of an overloaded generation.
\* What the backend call of one generation ends with: a text, a response
\* whose text is None, a fatal error, a rate limit on every key of the pool,
\* or a 503.
BackendResults == {"text", "none", "fatal", "exhausted", "unavailable"}
FailedResults == {"none", "fatal", "exhausted"}

\* generate_response_with_text (gemini.py:533-557): the text, the
\* empty-response text, or "❌ Exception: " + str(e); the 503 message names
\* "503" and "UNAVAILABLE".
generate_response_with_text(result) ==
  CASE result = "text" -> "ok"
    [] result = "none" -> "empty response"
    [] result = "unavailable" -> "503"
    [] OTHER -> "exception"

\* The number of requests whose delivered generation has returned.
Completed ==
  Cardinality({r \in Requests : requests[r].pc # "none" /\ requests[r].completed > 0})

\* What update_history appends for request r (text.py:93-98).
ExchangeAppend(log, r) ==
  Append(Append(log, Content("user", r)), Content("model", r))

\* The history callback of request r, if the processor passed one
\* (text.py:64-73 passes none when max_history == 0).
ExchangeHistory(r) ==
  /\ message_history' = update_history(message_history, RaceKey, r)
  /\ append_log' = IF max_history > 0
                   THEN [append_log EXCEPT ![RaceKey] = ExchangeAppend(@, r)]
                   ELSE append_log

\* on_message routes a text message; TextProcessor.process awaits its
\* generation (text.py:53-87).
TextArrives(r) ==
  /\ requests[r].pc = "none"
  /\ \A q \in Requests : q < r => requests[q].pc # "none"
  /\ requests' = [requests EXCEPT ![r] =
        [pc |-> "generating", author |-> RaceUser, key |-> RaceKey,
         result |-> "pending", completed |-> 0, retries |-> 0]]
  /\ UNCHANGED <<max_history, message_history, responses, next_msg_id, reactions,
                 last_delete, typingVars, retryVars, keyVars, ctxVars, logVars,
                 scopeVars, setVars, userVars, cfgVars, fileVars>>

\* The generation returned; send_response_with_retry runs up to its first
\* await: the reply with the RetryView for a 503, else the history callback
\* and then the send (retry.py:215-245).
GenerationDone(r, result) ==
  /\ requests[r].pc = "generating"
  /\ IF is_503_error(generate_response_with_text(result))
     THEN /\ requests' = [requests EXCEPT ![r].pc = "overloaded", ![r].result = result]
          /\ UNCHANGED <<message_history, append_log>>
     ELSE /\ requests' = [requests EXCEPT ![r].pc = "sending", ![r].result = result,
                                          ![r].completed = Completed + 1]
          /\ ExchangeHistory(r)
  /\ UNCHANGED <<max_history, responses, next_msg_id, reactions, last_delete,
                 regen_log, typingVars, retryVars, keyVars, ctxVars,
                 scopeVars, setVars, userVars, cfgVars, fileVars>>

\* The author presses the retry button: do_retry counts the retry and awaits
\* the retry callback (retry.py:112-117).
RetryPressed(r) ==
  /\ requests[r].pc = "overloaded"
  /\ requests[r].retries < max_retries
  /\ requests[r].retries < MaxReruns
  /\ requests' = [requests EXCEPT ![r].pc = "regenerating", ![r].retries = @ + 1]
  /\ UNCHANGED <<max_history, message_history, responses, next_msg_id, reactions,
                 last_delete, typingVars, retryVars, keyVars, ctxVars, logVars,
                 scopeVars, setVars, userVars, cfgVars, fileVars>>

\* The retry callback returned: still a 503 (retry.py:120-144), or do_retry
\* awaits error_message.delete() (retry.py:145-150).
RetryGenerationDone(r, result) ==
  /\ requests[r].pc = "regenerating"
  /\ IF is_503_error(generate_response_with_text(result))
     THEN requests' = [requests EXCEPT ![r].pc = "overloaded", ![r].result = result]
     ELSE requests' = [requests EXCEPT ![r].pc = "deleting", ![r].result = result,
                                       ![r].completed = Completed + 1]
  /\ UNCHANGED <<max_history, message_history, responses, next_msg_id, reactions,
                 last_delete, typingVars, retryVars, keyVars, ctxVars, logVars,
                 scopeVars, setVars, userVars, cfgVars, fileVars>>

\* The delete returned, or raised NotFound: the history callback, then the
\* send (retry.py:152-162).
ErrorMessageDeleted(r) ==
  /\ requests[r].pc = "deleting"
  /\ requests' = [requests EXCEPT ![r].pc = "sending"]
  /\ ExchangeHistory(r)
  /\ UNCHANGED <<max_history, responses, next_msg_id, reactions, last_delete,
                 regen_log, typingVars, retryVars, keyVars, ctxVars,
                 scopeVars, setVars, userVars, cfgVars, fileVars>>

\* message.reply returned the message, which is tracked (retry.py:249-261,
\* 167-179), or raised: nothing in split_and_send_messages_with_tracking,
\* send_response_with_retry or the processor catches it.
SendDone(r, delivered) ==
  /\ requests[r].pc = "sending"
  /\ IF delivered
     THEN /\ responses' = TrackerTrack(responses,
                [bot_message_id |-> next_msg_id, author_id |-> RaceUser,
                 history_key |-> RaceKey, request |-> r])
          /\ next_msg_id' = next_msg_id + 1
          /\ requests' = [requests EXCEPT ![r].pc = "delivered"]
     ELSE /\ requests' = [requests EXCEPT ![r].pc = "send failed"]
          /\ UNCHANGED <<responses, next_msg_id>>
  /\ UNCHANGED <<max_history, message_history, reactions, last_delete,
                 typingVars, retryVars, keyVars, ctxVars, logVars,
                 scopeVars, setVars, userVars, cfgVars, fileVars>>

NextExchange ==
  \/ \E r \in Requests : TextArrives(r)
  \/ \E r \in Requests, result \in BackendResults : GenerationDone(r, result)
  \/ \E r \in Requests : RetryPressed(r)
  \/ \E r \in Requests, result \in BackendResults : RetryGenerationDone(r, result)
  \/ \E r \in Requests : ErrorMessageDeleted(r)
  \/ \E r \in Requests, delivered \in BOOLEAN : SendDone(r, delivered)

SpecExchange == InitHistory /\ [][NextExchange]_vars

\* The entries of request r that update_history has appended to the scope.
EntriesOf(r) ==
  {i \in 1 .. Len(append_log[RaceKey]) : append_log[RaceKey][i].request = r}

\* ------------------------------------------------------------------ C34
\* C34: a generation that did not succeed (a fatal error, an exhausted key
\* pool or an empty backend response) adds no entry to the scope's history.
C34_FailedGenerationAddsNothing ==
  \A r \in Requests :
    (requests[r].pc # "none" /\ requests[r].result \in FailedResults) =>
       EntriesOf(r) = {}

\* ------------------------------------------------------------------ C35
\* C35: when the send of a response fails, the scope's history holds no
\* entry of that exchange.
C35_UndeliveredLeavesNoEntry ==
  \A r \in Requests :
    requests[r].pc = "send failed" =>
       /\ EntriesOf(r) = {}
       /\ \A i \in 1 .. Len(HistoryOf(RaceKey)) : HistoryOf(RaceKey)[i].request # r

\* The place of request r's user entry among the appended entries.
FirstEntryOf(r) == CHOOSE i \in EntriesOf(r) : \A j \in EntriesOf(r) : i <= j

\* ------------------------------------------------------------------ C36
\* C36: the entries appended to a scope are pairs, one request's user entry
\* directly followed by its model entry, and the pairs stand in the order in
\* which the requests' generations completed.
C36_PairsInCompletionOrder ==
  /\ \A i \in 1 .. Len(append_log[RaceKey]) :
       i % 2 = 1 =>
         /\ i + 1 <= Len(append_log[RaceKey])
         /\ append_log[RaceKey][i].role = "user"
         /\ append_log[RaceKey][i + 1].role = "model"
         /\ append_log[RaceKey][i + 1].request = append_log[RaceKey][i].request
  /\ \A a, b \in Requests :
       (EntriesOf(a) # {} /\ EntriesOf(b) # {} /\ FirstEntryOf(a) < FirstEntryOf(b)) =>
          requests[a].completed < requests[b].completed

\* ================================================== image generation
\* What the backend call of generate_or_edit_image ends with: a response,
\* a 429 that names the free tier, another 429, or any other error.
ImageOutcomes == {"ok", "429 free tier", "429", "other"}

\* A mutant of is_free_tier_error: no error is taken for the free tier.
is_free_tier_error_never(error) == FALSE

\* is_free_tier_error (gemini.py:86-106): a 429 with a free-tier indicator.
is_free_tier_error(error) == error = "429 free tier"

\* generate_or_edit_image up to its first backend call (gemini.py:1215-1255);
\* with an empty pool the loop is skipped, response is unbound and the
\* function's except returns the exception text (gemini.py:1278, 1292-1293).
ImageStart(c) ==
  /\ callers[c].pc = "idle"
  /\ \A q \in CallerIds : q < c => callers[q].pc # "idle"
  /\ callers' = [callers EXCEPT ![c] =
        [pc |-> IF KeysLeft(0, num_keys) THEN "image_calling" ELSE "returned_exception",
         keys_tried |-> 0, total_keys |-> num_keys,
         calls |-> IF KeysLeft(0, num_keys) THEN 1 ELSE 0,
         rotations |-> 0, only_429 |-> TRUE, named |-> 0, used |-> {},
         only_free_tier |-> TRUE]]  \* ghost: every call so far reported the free tier
  /\ UNCHANGED <<num_keys, current_index, histVars, typingVars, retryVars, ctxVars, logVars, scopeVars, setVars, userVars, cfgVars, fileVars>>

\* The backend call returns or raises (gemini.py:1247-1276): a free-tier
\* error counts the key and, with keys left and a successful rotate_key, the
\* loop calls again, else the paid-key explanation is returned; a rate limit
\* does the same and ends in the pool-exhausted error, which, like any other
\* error, the function's except turns into the exception text.
ImageCallReturns(c, outcome) ==
  LET logged == [callers EXCEPT ![c].only_free_tier = @ /\ outcome = "429 free tier"]
  IN
  /\ callers[c].pc = "image_calling"
  /\ IF outcome = "ok"
     THEN /\ callers' = [logged EXCEPT ![c].pc = "returned_image"]
          /\ UNCHANGED current_index
     ELSE IF is_free_tier_error(outcome)
     THEN IF KeysLeft(callers[c].keys_tried + 1, callers[c].total_keys) /\ CanRotate
          THEN /\ current_index' = RotatedIndex
               /\ callers' = [logged EXCEPT ![c].keys_tried = @ + 1,
                                             ![c].rotations = @ + 1,
                                             ![c].calls = @ + 1]
          ELSE /\ callers' = [logged EXCEPT ![c].keys_tried = @ + 1,
                                             ![c].pc = "returned_paid_key_explanation"]
               /\ UNCHANGED current_index
     ELSE IF is_rate_limit_error(outcome)
     THEN IF KeysLeft(callers[c].keys_tried + 1, callers[c].total_keys) /\ CanRotate
          THEN /\ current_index' = RotatedIndex
               /\ callers' = [logged EXCEPT ![c].keys_tried = @ + 1,
                                             ![c].rotations = @ + 1,
                                             ![c].calls = @ + 1]
          ELSE /\ callers' = [logged EXCEPT ![c].keys_tried = @ + 1,
                                             ![c].pc = "returned_exception"]
               /\ UNCHANGED current_index
     ELSE /\ callers' = [logged EXCEPT ![c].pc = "returned_exception"]
          /\ UNCHANGED current_index
  /\ UNCHANGED <<num_keys, histVars, typingVars, retryVars, ctxVars, logVars, scopeVars, setVars, userVars, cfgVars, fileVars>>

NextImage ==
  \/ \E c \in CallerIds : ImageStart(c)
  \/ \E c \in CallerIds, o \in ImageOutcomes : ImageCallReturns(c, o)

SpecImage == InitKeys /\ [][NextImage]_vars

\* ------------------------------------------------------------------ C37
\* C37: a generate_or_edit_image call over a pool of N >= 1 keys whose
\* backend calls all report the free-tier restriction calls the backend at
\* most N times, and when it ends it has returned the paid-key explanation.
C37_FreeTierPoolEndsWithExplanation ==
  \A c \in CallerIds :
    (callers[c].pc # "idle" /\ num_keys >= 1 /\ callers[c].only_free_tier) =>
       /\ callers[c].calls <= num_keys
       /\ callers[c].pc \in {"image_calling", "returned_paid_key_explanation"}
       /\ callers[c].pc = "image_calling" => callers[c].calls = callers[c].keys_tried + 1
       /\ callers[c].pc = "returned_paid_key_explanation" =>
             callers[c].calls = callers[c].keys_tried

\* Every key of the largest pool has reported the free tier to one call,
\* while another call was rotating the same pool.
C37_Witness ==
  \E c, d \in CallerIds :
    /\ c # d
    /\ num_keys = MaxKeys
    /\ callers[c].pc = "returned_paid_key_explanation"
    /\ callers[c].calls = MaxKeys
    /\ callers[d].pc # "idle"
    /\ callers[d].rotations >= 1

\* ============================================ waiting for an uploaded file
\* wait_for_file_active(uploaded_file, max_wait_seconds=120, poll_interval=2)
max_wait_seconds == 120
poll_interval == 2
\* The seconds one files.get call may take.
MaxPollTime == 1

\* file_info.state.name as files.get reports it.
FileStates == {"PROCESSING", "ACTIVE", "FAILED"}

\* The clock and the poll count stop at values no call reaches.
ClockCap == max_wait_seconds + poll_interval + MaxPollTime
PollCap == (max_wait_seconds \div poll_interval) + 2

\* A mutant of the timeout test: it never fires.
TimedOutNever(elapsed) == FALSE

\* elapsed >= max_wait_seconds (gemini.py:417-419)
TimedOut(elapsed) == elapsed >= max_wait_seconds

\* start_time = time.time() and the first files.get (gemini.py:406-411).
WaitStart ==
  /\ waiter.pc = "idle"
  /\ waiter' = [NoWait EXCEPT !.pc = "polling", !.polls = 1]
  /\ UNCHANGED <<histVars, typingVars, retryVars, keyVars, ctxVars, logVars,
                 scopeVars, setVars, userVars, cfgVars>>

\* A second passes while files.get runs in its thread.
PollTakesTime ==
  /\ waiter.pc = "polling"
  /\ waiter.poll_time < MaxPollTime
  /\ waiter' = [waiter EXCEPT !.poll_time = @ + 1,
                              !.elapsed = MinOf(@ + 1, ClockCap)]
  /\ UNCHANGED <<histVars, typingVars, retryVars, keyVars, ctxVars, logVars,
                 scopeVars, setVars, userVars, cfgVars>>

\* files.get raised: the exception leaves wait_for_file_active.
PollRaises ==
  /\ waiter.pc = "polling"
  /\ waiter' = [waiter EXCEPT !.pc = "raised_error"]
  /\ UNCHANGED <<histVars, typingVars, retryVars, keyVars, ctxVars, logVars,
                 scopeVars, setVars, userVars, cfgVars>>

\* files.get returned (gemini.py:411-422): ACTIVE returns the file, FAILED
\* raises, otherwise the timeout test, and then the sleep.
PollReturns(state) ==
  /\ waiter.pc = "polling"
  /\ waiter' = [waiter EXCEPT
        !.state = state,
        !.pc = IF state = "ACTIVE" THEN "returned"
               ELSE IF state = "FAILED" THEN "raised_failed"
               ELSE IF TimedOut(waiter.elapsed) THEN "raised_timeout"
               ELSE "sleeping"]
  /\ UNCHANGED <<histVars, typingVars, retryVars, keyVars, ctxVars, logVars,
                 scopeVars, setVars, userVars, cfgVars>>

\* asyncio.sleep(poll_interval) is over and the loop polls again
\* (gemini.py:421-422, 409-411).
SleepDone ==
  /\ waiter.pc = "sleeping"
  /\ waiter' = [waiter EXCEPT !.pc = "polling", !.poll_time = 0,
                              !.elapsed = MinOf(@ + poll_interval, ClockCap),
                              !.polls = MinOf(@ + 1, PollCap)]
  /\ UNCHANGED <<histVars, typingVars, retryVars, keyVars, ctxVars, logVars,
                 scopeVars, setVars, userVars, cfgVars>>

NextFile ==
  \/ WaitStart
  \/ PollTakesTime
  \/ PollRaises
  \/ \E state \in FileStates : PollReturns(state)
  \/ SleepDone

SpecFile == InitHistory /\ [][NextFile]_vars

\* The thread of files.get ends and the event loop resumes a task whose
\* sleep is over: a step that stays possible is taken.
FairSpecFile == SpecFile /\ WF_vars(NextFile)

WaitEnded ==
  waiter.pc \in {"returned", "raised_failed", "raised_timeout", "raised_error"}

\* ------------------------------------------------------------------ C38
\* C38: a wait_for_file_active call ends: it returns only for ACTIVE,
\* raises for FAILED, raises the timeout only once max_wait_seconds have
\* elapsed, sleeps only before that, and polls a bounded number of times.
C38_WaitTerminates ==
  /\ (waiter.pc # "idle") ~> WaitEnded
  /\ [](waiter.pc = "returned" => waiter.state = "ACTIVE")
  /\ [](waiter.pc = "raised_failed" => waiter.state = "FAILED")
  /\ [](waiter.pc = "raised_timeout" =>
          waiter.state = "PROCESSING" /\ waiter.elapsed >= max_wait_seconds)
  /\ [](waiter.pc = "sleeping" =>
          waiter.state = "PROCESSING" /\ waiter.elapsed < max_wait_seconds)
  /\ [](waiter.polls <= (max_wait_seconds \div poll_interval) + 1)

\* The file stayed in processing through every poll the timeout allows.
C38_Witness ==
  /\ waiter.pc = "raised_timeout"
  /\ waiter.polls = (max_wait_seconds \div poll_interval) + 1
  /\ waiter.elapsed = max_wait_seconds

\* ------------------------------------------------------------------ C39
\* C39: every accepted message of every kind whose handling has ended has
\* left something the user can see: a delivered response or the reply with
\* the retry button.
C39_EveryMessageEndsVisibly ==
  \A m \in CtxMsgIds :
    ctx_msgs[m].pc \notin {"none", "generating"} =>
       ctx_msgs[m].pc \in {"delivered", "retry_view"}

====
